---- MODULE Spec2Model ----
(***************************************************************************)
(* Model of the collaboration core: src/src/permissions.py (roles,         *)
(* permissions, the grant table) and src/src/collaboration.py (the         *)
(* CollaborationManager: users, documents, collaborators, share links).    *)
(*                                                                         *)
(* Every method of CollaborationManager is a pure operator from the store  *)
(* and the arguments to [outcome, documents, result]; the action of the    *)
(* same name applies it to the current store.  outcome is "ok" or the      *)
(* raise statement that ended the call.                                    *)
(***************************************************************************)
EXTENDS Integers, Sequences, FiniteSets, TLC

VARIABLES
    users,              \* CollaborationManager.users (the keys of the dict)
    documents,          \* CollaborationManager.documents: id -> Document
    role_permissions,   \* permissions._ROLE_PERMISSIONS
    now,                \* the clock read by datetime.now()
    uuid_counter,       \* number of ids uuid4() has handed out
    pc,                 \* the caller: "idle", or "returned" from a call
    last,               \* the call that has returned: method, arguments,
                        \* outcome, result, and documents as the call found it
    budget,             \* calls that may still change documents
    redeemed,           \* history: link id -> successful redemptions of the
                        \* link, for the links in the store
    threads             \* callers that run a method step by step: the call
                        \* each is in, and how far it has got

vars == <<users, documents, role_permissions, now, uuid_counter, pc, last, budget,
          redeemed, threads>>

-----------------------------------------------------------------------------
(* Bounds *)

\* Redemptions of one link in a row, in the properties that count them.
MaxRedemptions == 3

\* The clock runs from 0 to MaxTime.
MaxTime == 1
\* uuid4() hands out the link ids 1..MaxLinks.
MaxLinks == 2
\* A run ends with its MaxMutations-th call that changes documents.
MaxMutations == 4

UserIds == {"u1", "u2", "u3"}
TwoUsers == {"u1", "u2"}
\* "d1" is the document that gets registered; "d2" names no document.
DocIds == {"d1", "d2"}
RegisteredDocIds == {"d1"}
LinkIds == 1..MaxLinks
Times == 0..MaxTime

-----------------------------------------------------------------------------
(* permissions.py *)

OWNER == "owner"
EDITOR == "editor"
VIEWER == "viewer"
Role == {OWNER, EDITOR, VIEWER}

VIEW == "view"
EDIT == "edit"
MANAGE == "manage"
Permission == {VIEW, EDIT, MANAGE}

\* Optional[...] = None
NoRole == "None"
NoUser == "None"
NoDocument == "None"
NoTime == -1

\* the grant table with MANAGE granted to editors
ROLE_PERMISSIONS_editor_manages ==
    [r \in Role |->
        CASE r = OWNER -> {VIEW, EDIT, MANAGE}
          [] r = EDITOR -> {VIEW, EDIT, MANAGE}
          [] r = VIEWER -> {VIEW}]

ROLE_PERMISSIONS ==
    [r \in Role |->
        CASE r = OWNER -> {VIEW, EDIT, MANAGE}
          [] r = EDITOR -> {VIEW, EDIT}
          [] r = VIEWER -> {VIEW}]

can(role, permission) == permission \in role_permissions[role]

has_permission(role, permission) ==
    IF role = NoRole THEN FALSE ELSE can(role, permission)

\* Strings are sequences of characters where the code looks into them.
\* The characters are the letters of the role names and of "admin", in both
\* cases, and a blank.

\* str.lower() of one character
LowerChar(c) ==
    CASE c = "A" -> "a" [] c = "D" -> "d" [] c = "E" -> "e" [] c = "I" -> "i"
      [] c = "M" -> "m" [] c = "N" -> "n" [] c = "O" -> "o" [] c = "R" -> "r"
      [] c = "T" -> "t" [] c = "V" -> "v" [] c = "W" -> "w" [] OTHER -> c

\* str.upper() of one character
UpperChar(c) ==
    CASE c = "a" -> "A" [] c = "d" -> "D" [] c = "e" -> "E" [] c = "i" -> "I"
      [] c = "m" -> "M" [] c = "n" -> "N" [] c = "o" -> "O" [] c = "r" -> "R"
      [] c = "t" -> "T" [] c = "v" -> "V" [] c = "w" -> "W" [] OTHER -> c

\* str.lower()
lower(value) == [i \in 1..Len(value) |-> LowerChar(value[i])]

\* role.value, the string form of a role
RoleValue ==
    [r \in Role |->
        CASE r = OWNER -> <<"o", "w", "n", "e", "r">>
          [] r = EDITOR -> <<"e", "d", "i", "t", "o", "r">>
          [] r = VIEWER -> <<"v", "i", "e", "w", "e", "r">>]

UnsupportedRole == "ValueError: Unsupported role"

\* role_from_str comparing value as it is, without lower()
role_from_str_exact(value) ==
    IF \E role \in Role : RoleValue[role] = value
    THEN [outcome |-> "ok",
          result |-> CHOOSE role \in Role : RoleValue[role] = value]
    ELSE [outcome |-> UnsupportedRole, result |-> <<>>]

role_from_str(value) ==
    LET normalized == lower(value)
    IN IF \E role \in Role : RoleValue[role] = normalized
       THEN [outcome |-> "ok",
             result |-> CHOOSE role \in Role : RoleValue[role] = normalized]
       ELSE [outcome |-> UnsupportedRole, result |-> <<>>]

-----------------------------------------------------------------------------
(* collaboration.py: the dataclasses *)

EmptyMap == [x \in {} |-> x]

Collaborator(user_id, document_id, role, added_by, added_at) ==
    [user_id |-> user_id, document_id |-> document_id, role |-> role,
     added_by |-> added_by, added_at |-> added_at, last_accessed |-> NoTime]

ShareLink(id, document_id, created_by, created_at, expires_at, access_role) ==
    [id |-> id, document_id |-> document_id, created_by |-> created_by,
     created_at |-> created_at, expires_at |-> expires_at,
     access_role |-> access_role, is_active |-> TRUE, access_count |-> 0]

Document(id, owner_id) ==
    [id |-> id, owner_id |-> owner_id,
     collaborators |-> EmptyMap, share_links |-> EmptyMap]

\* d with key k bound to v (dict assignment d[k] = v)
Put(d, k, v) == [x \in DOMAIN d \cup {k} |-> IF x = k THEN v ELSE d[x]]

\* d without key k (del d[k])
Del(d, k) == [x \in DOMAIN d \ {k} |-> d[x]]

-----------------------------------------------------------------------------
(* collaboration.py: CollaborationManager, as functions of the store *)

Ok == "ok"
Forbidden == "PermissionError: lacks permission"
DocumentNotFound == "ValueError: Document not found"
UserNotFound == "ValueError: User not found"
OwnerAsCollaborator == "ValueError: Cannot add document owner as collaborator"
NotCollaborator == "ValueError: is not a collaborator"
LinkNotFoundInDocument == "ValueError: Share link not found for document"
LinkInactive == "ValueError: Share link is no longer active"
LinkExpired == "ValueError: Share link has expired"
LinkNotFound == "ValueError: Share link not found"
\* del document.collaborators[user_id] for a user_id that is not a key
KeyError == "KeyError: user_id"

\* Every failure raised as a ValueError, the permission failure included
ErrorKind_all_value_errors(outcome) ==
    IF outcome = Ok THEN "None" ELSE "ValueError"

\* The class of the exception a method raises for each failure: the caller's
\* except clause selects on it.  The text after the colon is the message.
ErrorKind(outcome) ==
    CASE outcome = Ok -> "None"
      [] outcome = Forbidden -> "PermissionError"
      [] outcome \in {DocumentNotFound, UserNotFound, OwnerAsCollaborator,
                      NotCollaborator, LinkNotFoundInDocument, LinkInactive,
                      LinkExpired, LinkNotFound, UnsupportedRole}
           -> "ValueError"
      [] outcome = KeyError -> "KeyError"

Raise(docs, error) == [outcome |-> error, documents |-> docs, result |-> <<>>]
Return(docs, value) == [outcome |-> Ok, documents |-> docs, result |-> value]

\* get_user_role consulting the collaborator records before the owner
get_user_role_record_first(docs, user_id, document_id) ==
    IF document_id \notin DOMAIN docs THEN NoRole
    ELSE IF user_id \in DOMAIN docs[document_id].collaborators
         THEN docs[document_id].collaborators[user_id].role
    ELSE IF docs[document_id].owner_id = user_id THEN OWNER
    ELSE NoRole

\* get_user_role without the comparison with document.owner_id
get_user_role_collaborators_only(docs, user_id, document_id) ==
    IF document_id \notin DOMAIN docs THEN NoRole
    ELSE IF user_id \in DOMAIN docs[document_id].collaborators
         THEN docs[document_id].collaborators[user_id].role
    ELSE NoRole

get_user_role(docs, user_id, document_id) ==
    IF document_id \notin DOMAIN docs THEN NoRole
    ELSE IF docs[document_id].owner_id = user_id THEN OWNER
    ELSE IF user_id \in DOMAIN docs[document_id].collaborators
         THEN docs[document_id].collaborators[user_id].role
    ELSE NoRole

check_permission(docs, user_id, document_id, permission) ==
    has_permission(get_user_role(docs, user_id, document_id), permission)

\* add_collaborator storing the record before it checks for the owner
add_collaborator_stores_first(docs, usrs, t, document_id, user_id, role, added_by) ==
    IF ~check_permission(docs, added_by, document_id, MANAGE)
    THEN Raise(docs, Forbidden)
    ELSE IF document_id \notin DOMAIN docs THEN Raise(docs, DocumentNotFound)
    ELSE IF user_id \notin usrs THEN Raise(docs, UserNotFound)
    ELSE LET collaborator == Collaborator(user_id, document_id, role, added_by, t)
             stored == [docs EXCEPT ![document_id].collaborators =
                                       Put(@, user_id, collaborator)]
         IN IF user_id = docs[document_id].owner_id
            THEN Raise(stored, OwnerAsCollaborator)
            ELSE Return(stored, collaborator)

\* add_collaborator without the lookup of user_id in users
add_collaborator_any_user(docs, usrs, t, document_id, user_id, role, added_by) ==
    IF ~check_permission(docs, added_by, document_id, MANAGE)
    THEN Raise(docs, Forbidden)
    ELSE IF document_id \notin DOMAIN docs THEN Raise(docs, DocumentNotFound)
    ELSE IF user_id = docs[document_id].owner_id
         THEN Raise(docs, OwnerAsCollaborator)
    ELSE LET collaborator == Collaborator(user_id, document_id, role, added_by, t)
         IN Return([docs EXCEPT ![document_id].collaborators =
                                    Put(@, user_id, collaborator)],
                   collaborator)

\* add_collaborator without the check that user_id is not the owner
add_collaborator_accepts_owner(docs, usrs, t, document_id, user_id, role, added_by) ==
    IF ~check_permission(docs, added_by, document_id, MANAGE)
    THEN Raise(docs, Forbidden)
    ELSE IF document_id \notin DOMAIN docs THEN Raise(docs, DocumentNotFound)
    ELSE IF user_id \notin usrs THEN Raise(docs, UserNotFound)
    ELSE LET collaborator == Collaborator(user_id, document_id, role, added_by, t)
         IN Return([docs EXCEPT ![document_id].collaborators =
                                    Put(@, user_id, collaborator)],
                   collaborator)

\* add_collaborator checking for the owner before it looks the user up
add_collaborator_owner_first(docs, usrs, t, document_id, user_id, role, added_by) ==
    IF ~check_permission(docs, added_by, document_id, MANAGE)
    THEN Raise(docs, Forbidden)
    ELSE IF document_id \notin DOMAIN docs THEN Raise(docs, DocumentNotFound)
    ELSE IF user_id = docs[document_id].owner_id
         THEN Raise(docs, OwnerAsCollaborator)
    ELSE IF user_id \notin usrs THEN Raise(docs, UserNotFound)
    ELSE LET collaborator == Collaborator(user_id, document_id, role, added_by, t)
         IN Return([docs EXCEPT ![document_id].collaborators =
                                    Put(@, user_id, collaborator)],
                   collaborator)

\* add_collaborator replacing the whole collaborators dict by the new record
add_collaborator_replaces_dict(docs, usrs, t, document_id, user_id, role, added_by) ==
    IF ~check_permission(docs, added_by, document_id, MANAGE)
    THEN Raise(docs, Forbidden)
    ELSE IF document_id \notin DOMAIN docs THEN Raise(docs, DocumentNotFound)
    ELSE IF user_id \notin usrs THEN Raise(docs, UserNotFound)
    ELSE IF user_id = docs[document_id].owner_id
         THEN Raise(docs, OwnerAsCollaborator)
    ELSE LET collaborator == Collaborator(user_id, document_id, role, added_by, t)
         IN Return([docs EXCEPT ![document_id].collaborators =
                                    Put(EmptyMap, user_id, collaborator)],
                   collaborator)

\* add_collaborator updating an existing record in place, which keeps its
\* last_accessed
add_collaborator_updates_in_place(docs, usrs, t, document_id, user_id, role, added_by) ==
    IF ~check_permission(docs, added_by, document_id, MANAGE)
    THEN Raise(docs, Forbidden)
    ELSE IF document_id \notin DOMAIN docs THEN Raise(docs, DocumentNotFound)
    ELSE IF user_id \notin usrs THEN Raise(docs, UserNotFound)
    ELSE IF user_id = docs[document_id].owner_id
         THEN Raise(docs, OwnerAsCollaborator)
    ELSE LET fresh == Collaborator(user_id, document_id, role, added_by, t)
             collaborator ==
                 IF user_id \in DOMAIN docs[document_id].collaborators
                 THEN [fresh EXCEPT !.last_accessed =
                          docs[document_id].collaborators[user_id].last_accessed]
                 ELSE fresh
         IN Return([docs EXCEPT ![document_id].collaborators =
                                    Put(@, user_id, collaborator)],
                   collaborator)

\* add_collaborator looking the user up before it checks the permission
add_collaborator_validates_first(docs, usrs, t, document_id, user_id, role, added_by) ==
    IF user_id \notin usrs THEN Raise(docs, UserNotFound)
    ELSE IF ~check_permission(docs, added_by, document_id, MANAGE)
    THEN Raise(docs, Forbidden)
    ELSE IF document_id \notin DOMAIN docs THEN Raise(docs, DocumentNotFound)
    ELSE IF user_id = docs[document_id].owner_id
         THEN Raise(docs, OwnerAsCollaborator)
    ELSE LET collaborator == Collaborator(user_id, document_id, role, added_by, t)
         IN Return([docs EXCEPT ![document_id].collaborators =
                                    Put(@, user_id, collaborator)],
                   collaborator)

\* add_collaborator requiring EDIT
add_collaborator_requires_edit(docs, usrs, t, document_id, user_id, role, added_by) ==
    IF ~check_permission(docs, added_by, document_id, EDIT)
    THEN Raise(docs, Forbidden)
    ELSE IF document_id \notin DOMAIN docs THEN Raise(docs, DocumentNotFound)
    ELSE IF user_id \notin usrs THEN Raise(docs, UserNotFound)
    ELSE IF user_id = docs[document_id].owner_id
         THEN Raise(docs, OwnerAsCollaborator)
    ELSE LET collaborator == Collaborator(user_id, document_id, role, added_by, t)
         IN Return([docs EXCEPT ![document_id].collaborators =
                                    Put(@, user_id, collaborator)],
                   collaborator)

add_collaborator(docs, usrs, t, document_id, user_id, role, added_by) ==
    IF ~check_permission(docs, added_by, document_id, MANAGE)
    THEN Raise(docs, Forbidden)
    ELSE IF document_id \notin DOMAIN docs THEN Raise(docs, DocumentNotFound)
    ELSE IF user_id \notin usrs THEN Raise(docs, UserNotFound)
    ELSE IF user_id = docs[document_id].owner_id
         THEN Raise(docs, OwnerAsCollaborator)
    ELSE LET collaborator == Collaborator(user_id, document_id, role, added_by, t)
         IN Return([docs EXCEPT ![document_id].collaborators =
                                    Put(@, user_id, collaborator)],
                   collaborator)

\* remove_collaborator leaving a viewer record where it should delete
remove_collaborator_demotes(docs, document_id, user_id, removed_by) ==
    IF ~check_permission(docs, removed_by, document_id, MANAGE)
    THEN Raise(docs, Forbidden)
    ELSE IF document_id \notin DOMAIN docs THEN Raise(docs, DocumentNotFound)
    ELSE IF user_id \notin DOMAIN docs[document_id].collaborators
         THEN Raise(docs, NotCollaborator)
    ELSE Return([docs EXCEPT ![document_id].collaborators[user_id].role = VIEWER],
                <<>>)

\* remove_collaborator looking the record up before it checks the permission
remove_collaborator_looks_up_first(docs, document_id, user_id, removed_by) ==
    IF document_id \in DOMAIN docs
       /\ user_id \notin DOMAIN docs[document_id].collaborators
    THEN Raise(docs, NotCollaborator)
    ELSE IF ~check_permission(docs, removed_by, document_id, MANAGE)
    THEN Raise(docs, Forbidden)
    ELSE IF document_id \notin DOMAIN docs THEN Raise(docs, DocumentNotFound)
    ELSE Return([docs EXCEPT ![document_id].collaborators = Del(@, user_id)],
                <<>>)

\* remove_collaborator deleting the user's record from every document
remove_collaborator_everywhere(docs, document_id, user_id, removed_by) ==
    IF ~check_permission(docs, removed_by, document_id, MANAGE)
    THEN Raise(docs, Forbidden)
    ELSE IF document_id \notin DOMAIN docs THEN Raise(docs, DocumentNotFound)
    ELSE IF user_id \notin DOMAIN docs[document_id].collaborators
         THEN Raise(docs, NotCollaborator)
    ELSE Return([d \in DOMAIN docs |->
                    [docs[d] EXCEPT !.collaborators = Del(@, user_id)]],
                <<>>)

remove_collaborator(docs, document_id, user_id, removed_by) ==
    IF ~check_permission(docs, removed_by, document_id, MANAGE)
    THEN Raise(docs, Forbidden)
    ELSE IF document_id \notin DOMAIN docs THEN Raise(docs, DocumentNotFound)
    ELSE IF user_id \notin DOMAIN docs[document_id].collaborators
         THEN Raise(docs, NotCollaborator)
    ELSE Return([docs EXCEPT ![document_id].collaborators = Del(@, user_id)],
                <<>>)

\* create_share_link refusing an expires_at that has passed
create_share_link_validates_expiry(docs, t, uuid, document_id, created_by, role, expires_at) ==
    IF ~check_permission(docs, created_by, document_id, MANAGE)
    THEN Raise(docs, Forbidden)
    ELSE IF document_id \notin DOMAIN docs THEN Raise(docs, DocumentNotFound)
    ELSE IF expires_at # NoTime /\ expires_at < t THEN Raise(docs, LinkExpired)
    ELSE LET share_link ==
                 ShareLink(uuid, document_id, created_by, t, expires_at, role)
         IN Return([docs EXCEPT ![document_id].share_links =
                                    Put(@, uuid, share_link)],
                   share_link)

\* create_share_link numbering the links of each document from 1 where it
\* should take a uuid
create_share_link_numbers_per_document(docs, t, uuid, document_id, created_by, role, expires_at) ==
    IF ~check_permission(docs, created_by, document_id, MANAGE)
    THEN Raise(docs, Forbidden)
    ELSE IF document_id \notin DOMAIN docs THEN Raise(docs, DocumentNotFound)
    ELSE LET n == Cardinality(DOMAIN docs[document_id].share_links) + 1
             share_link ==
                 ShareLink(n, document_id, created_by, t, expires_at, role)
         IN Return([docs EXCEPT ![document_id].share_links =
                                    Put(@, n, share_link)],
                   share_link)

create_share_link(docs, t, uuid, document_id, created_by, role, expires_at) ==
    IF ~check_permission(docs, created_by, document_id, MANAGE)
    THEN Raise(docs, Forbidden)
    ELSE IF document_id \notin DOMAIN docs THEN Raise(docs, DocumentNotFound)
    ELSE LET share_link ==
                 ShareLink(uuid, document_id, created_by, t, expires_at, role)
         IN Return([docs EXCEPT ![document_id].share_links =
                                    Put(@, uuid, share_link)],
                   share_link)

\* create_share_link called without role and expires_at
create_share_link_defaults(docs, t, uuid, document_id, created_by) ==
    create_share_link(docs, t, uuid, document_id, created_by, VIEWER, NoTime)

\* revoke_share_link deleting the link where it should clear is_active
revoke_share_link_deletes(docs, document_id, link_id, revoked_by) ==
    IF ~check_permission(docs, revoked_by, document_id, MANAGE)
    THEN Raise(docs, Forbidden)
    ELSE IF document_id \notin DOMAIN docs THEN Raise(docs, DocumentNotFound)
    ELSE IF link_id \notin DOMAIN docs[document_id].share_links
         THEN Raise(docs, LinkNotFoundInDocument)
    ELSE Return([docs EXCEPT ![document_id].share_links = Del(@, link_id)],
                <<>>)

\* revoke_share_link flipping is_active where it should clear it
revoke_share_link_toggles(docs, document_id, link_id, revoked_by) ==
    IF ~check_permission(docs, revoked_by, document_id, MANAGE)
    THEN Raise(docs, Forbidden)
    ELSE IF document_id \notin DOMAIN docs THEN Raise(docs, DocumentNotFound)
    ELSE IF link_id \notin DOMAIN docs[document_id].share_links
         THEN Raise(docs, LinkNotFoundInDocument)
    ELSE Return([docs EXCEPT
                    ![document_id].share_links[link_id].is_active = ~@],
                <<>>)

\* revoke_share_link clearing the counter with the flag
revoke_share_link_resets_count(docs, document_id, link_id, revoked_by) ==
    IF ~check_permission(docs, revoked_by, document_id, MANAGE)
    THEN Raise(docs, Forbidden)
    ELSE IF document_id \notin DOMAIN docs THEN Raise(docs, DocumentNotFound)
    ELSE IF link_id \notin DOMAIN docs[document_id].share_links
         THEN Raise(docs, LinkNotFoundInDocument)
    ELSE Return([docs EXCEPT
                    ![document_id].share_links[link_id].is_active = FALSE,
                    ![document_id].share_links[link_id].access_count = 0],
                <<>>)

\* revoke_share_link finding the link as access_via_share_link does, in
\* whichever document holds it
revoke_share_link_any_document(docs, document_id, link_id, revoked_by) ==
    IF ~check_permission(docs, revoked_by, document_id, MANAGE)
    THEN Raise(docs, Forbidden)
    ELSE IF document_id \notin DOMAIN docs THEN Raise(docs, DocumentNotFound)
    ELSE IF \A d \in DOMAIN docs : link_id \notin DOMAIN docs[d].share_links
         THEN Raise(docs, LinkNotFoundInDocument)
    ELSE Return([d \in DOMAIN docs |->
                    IF link_id \in DOMAIN docs[d].share_links
                    THEN [docs[d] EXCEPT !.share_links[link_id].is_active = FALSE]
                    ELSE docs[d]],
                <<>>)

revoke_share_link(docs, document_id, link_id, revoked_by) ==
    IF ~check_permission(docs, revoked_by, document_id, MANAGE)
    THEN Raise(docs, Forbidden)
    ELSE IF document_id \notin DOMAIN docs THEN Raise(docs, DocumentNotFound)
    ELSE IF link_id \notin DOMAIN docs[document_id].share_links
         THEN Raise(docs, LinkNotFoundInDocument)
    ELSE Return([docs EXCEPT
                    ![document_id].share_links[link_id].is_active = FALSE],
                <<>>)

\* The documents whose share_links hold link_id; the loop of
\* access_via_share_link stops at the first of them in dict order.
Holders(docs, link_id) ==
    {d \in DOMAIN docs : link_id \in DOMAIN docs[d].share_links}

\* access_in_document deleting a link it finds expired
access_in_document_drops_expired(docs, t, d, link_id, user_id) ==
    LET share_link == docs[d].share_links[link_id]
    IN IF ~share_link.is_active THEN Raise(docs, LinkInactive)
       ELSE IF share_link.expires_at # NoTime /\ t > share_link.expires_at
            THEN [outcome |-> LinkExpired,
                  documents |-> [docs EXCEPT ![d].share_links = Del(@, link_id)],
                  result |-> <<>>]
       ELSE LET counted == [docs EXCEPT
                    ![d].share_links[link_id].access_count = @ + 1]
                touched ==
                    IF user_id # NoUser /\ user_id \in DOMAIN docs[d].collaborators
                    THEN [counted EXCEPT
                            ![d].collaborators[user_id].last_accessed = t]
                    ELSE counted
            IN Return(touched, <<d, share_link.access_role>>)

\* access_in_document returning the role the caller holds on the document,
\* when the caller holds one
access_in_document_callers_role(docs, t, d, link_id, user_id) ==
    LET share_link == docs[d].share_links[link_id]
    IN IF ~share_link.is_active THEN Raise(docs, LinkInactive)
       ELSE IF share_link.expires_at # NoTime /\ t > share_link.expires_at
            THEN Raise(docs, LinkExpired)
       ELSE LET counted == [docs EXCEPT
                    ![d].share_links[link_id].access_count = @ + 1]
                touched ==
                    IF user_id # NoUser /\ user_id \in DOMAIN docs[d].collaborators
                    THEN [counted EXCEPT
                            ![d].collaborators[user_id].last_accessed = t]
                    ELSE counted
            IN Return(touched,
                      <<d, IF get_user_role(docs, user_id, d) # NoRole
                           THEN get_user_role(docs, user_id, d)
                           ELSE share_link.access_role>>)

\* access_in_document recording a caller who is not a collaborator as one,
\* with the role of the link
access_in_document_adds_collaborator(docs, t, d, link_id, user_id) ==
    LET share_link == docs[d].share_links[link_id]
    IN IF ~share_link.is_active THEN Raise(docs, LinkInactive)
       ELSE IF share_link.expires_at # NoTime /\ t > share_link.expires_at
            THEN Raise(docs, LinkExpired)
       ELSE LET counted == [docs EXCEPT
                    ![d].share_links[link_id].access_count = @ + 1]
                touched ==
                    IF user_id = NoUser THEN counted
                    ELSE IF user_id \in DOMAIN docs[d].collaborators
                    THEN [counted EXCEPT
                            ![d].collaborators[user_id].last_accessed = t]
                    ELSE [counted EXCEPT ![d].collaborators =
                            Put(@, user_id,
                                Collaborator(user_id, d, share_link.access_role,
                                             share_link.created_by, t))]
            IN Return(touched, <<d, share_link.access_role>>)

\* access_in_document looking at expires_at before is_active
access_in_document_expiry_first(docs, t, d, link_id, user_id) ==
    LET share_link == docs[d].share_links[link_id]
    IN IF share_link.expires_at # NoTime /\ t > share_link.expires_at
       THEN Raise(docs, LinkExpired)
       ELSE IF ~share_link.is_active THEN Raise(docs, LinkInactive)
       ELSE LET counted == [docs EXCEPT
                    ![d].share_links[link_id].access_count = @ + 1]
                touched ==
                    IF user_id # NoUser /\ user_id \in DOMAIN docs[d].collaborators
                    THEN [counted EXCEPT
                            ![d].collaborators[user_id].last_accessed = t]
                    ELSE counted
            IN Return(touched, <<d, share_link.access_role>>)

\* access_in_document treating the instant expires_at as expired
access_in_document_expires_at_deadline(docs, t, d, link_id, user_id) ==
    LET share_link == docs[d].share_links[link_id]
    IN IF ~share_link.is_active THEN Raise(docs, LinkInactive)
       ELSE IF share_link.expires_at # NoTime /\ t >= share_link.expires_at
            THEN Raise(docs, LinkExpired)
       ELSE LET counted == [docs EXCEPT
                    ![d].share_links[link_id].access_count = @ + 1]
                touched ==
                    IF user_id # NoUser /\ user_id \in DOMAIN docs[d].collaborators
                    THEN [counted EXCEPT
                            ![d].collaborators[user_id].last_accessed = t]
                    ELSE counted
            IN Return(touched, <<d, share_link.access_role>>)

\* access_in_document counting the redemption before it looks at is_active
\* and expires_at
access_in_document_counts_failures(docs, t, d, link_id, user_id) ==
    LET share_link == docs[d].share_links[link_id]
        counted == [docs EXCEPT ![d].share_links[link_id].access_count = @ + 1]
    IN IF ~share_link.is_active THEN Raise(counted, LinkInactive)
       ELSE IF share_link.expires_at # NoTime /\ t > share_link.expires_at
            THEN Raise(counted, LinkExpired)
       ELSE LET touched ==
                    IF user_id # NoUser /\ user_id \in DOMAIN docs[d].collaborators
                    THEN [counted EXCEPT
                            ![d].collaborators[user_id].last_accessed = t]
                    ELSE counted
            IN Return(touched, <<d, share_link.access_role>>)

access_in_document(docs, t, d, link_id, user_id) ==
    LET share_link == docs[d].share_links[link_id]
    IN IF ~share_link.is_active THEN Raise(docs, LinkInactive)
       ELSE IF share_link.expires_at # NoTime /\ t > share_link.expires_at
            THEN Raise(docs, LinkExpired)
       ELSE LET counted == [docs EXCEPT
                    ![d].share_links[link_id].access_count = @ + 1]
                touched ==
                    IF user_id # NoUser /\ user_id \in DOMAIN docs[d].collaborators
                    THEN [counted EXCEPT
                            ![d].collaborators[user_id].last_accessed = t]
                    ELSE counted
            IN Return(touched, <<d, share_link.access_role>>)

\* access_via_share_link returning nothing for a link id it does not find
access_via_share_link_ignores_unknown(docs, t, d, link_id, user_id) ==
    IF d = NoDocument THEN Return(docs, <<NoDocument, NoRole>>)
    ELSE access_in_document(docs, t, d, link_id, user_id)

\* d is the document the scan stops at, NoDocument when no document holds
\* link_id.
access_via_share_link(docs, t, d, link_id, user_id) ==
    IF d = NoDocument THEN Raise(docs, LinkNotFound)
    ELSE access_in_document(docs, t, d, link_id, user_id)

\* list_collaborators requiring EDIT
list_collaborators_requires_edit(docs, document_id, user_id) ==
    IF ~check_permission(docs, user_id, document_id, EDIT)
    THEN Raise(docs, Forbidden)
    ELSE IF document_id \notin DOMAIN docs THEN Raise(docs, DocumentNotFound)
    ELSE Return(docs, {docs[document_id].collaborators[u] :
                          u \in DOMAIN docs[document_id].collaborators})

\* list_collaborators looking the document up before it checks the permission
list_collaborators_document_first(docs, document_id, user_id) ==
    IF document_id \notin DOMAIN docs THEN Raise(docs, DocumentNotFound)
    ELSE IF ~check_permission(docs, user_id, document_id, VIEW)
    THEN Raise(docs, Forbidden)
    ELSE Return(docs, {docs[document_id].collaborators[u] :
                          u \in DOMAIN docs[document_id].collaborators})

list_collaborators(docs, document_id, user_id) ==
    IF ~check_permission(docs, user_id, document_id, VIEW)
    THEN Raise(docs, Forbidden)
    ELSE IF document_id \notin DOMAIN docs THEN Raise(docs, DocumentNotFound)
    ELSE Return(docs, {docs[document_id].collaborators[u] :
                          u \in DOMAIN docs[document_id].collaborators})

\* list_share_links leaving out the links that are not active
list_share_links_active_only(docs, document_id, user_id) ==
    IF ~check_permission(docs, user_id, document_id, MANAGE)
    THEN Raise(docs, Forbidden)
    ELSE IF document_id \notin DOMAIN docs THEN Raise(docs, DocumentNotFound)
    ELSE Return(docs, {docs[document_id].share_links[l] :
                          l \in {k \in DOMAIN docs[document_id].share_links :
                                    docs[document_id].share_links[k].is_active}})

list_share_links(docs, document_id, user_id) ==
    IF ~check_permission(docs, user_id, document_id, MANAGE)
    THEN Raise(docs, Forbidden)
    ELSE IF document_id \notin DOMAIN docs THEN Raise(docs, DocumentNotFound)
    ELSE Return(docs, {docs[document_id].share_links[l] :
                          l \in DOMAIN docs[document_id].share_links})

-----------------------------------------------------------------------------
(* The state machine *)

NoCall ==
    [op |-> "__init__", args |-> <<>>, outcome |-> Ok, result |-> <<>>,
     users |-> {}, documents |-> EmptyMap]

\* The callers that may be inside a method at the same time, and a caller
\* that is in none.
Callers == {1, 2}

Waiting ==
    [op |-> "none", args |-> <<>>, pc |-> "idle", outcome |-> Ok,
     document |-> NoDocument, read |-> 0,
     disturbed |-> FALSE, stale |-> FALSE, atomic |-> TRUE]

\* Documents as their constructor makes them: no collaborators, no links.
NewDocuments(U) == {Document(d, o) : d \in RegisteredDocIds, o \in U}

\* A manager after construction and any number of add_user calls and
\* add_document calls of new documents, made with the user ids U.
Setup(U) ==
    /\ users \in SUBSET U
    /\ \E ds \in SUBSET RegisteredDocIds :
           documents \in {f \in [ds -> NewDocuments(U)] : \A d \in ds : f[d].id = d}
    /\ role_permissions = ROLE_PERMISSIONS
    /\ now = 0
    /\ uuid_counter = 0
    /\ pc = "idle"
    /\ last = NoCall
    /\ redeemed = [l \in LinkIds |-> 0]
    /\ threads = [t \in Callers |-> Waiting]

\* A call of method op with arguments args that ends as r says.
Called(op, args, r) ==
    /\ pc = "idle"
    /\ pc' = "returned"
    /\ last' = [op |-> op, args |-> args, outcome |-> r.outcome,
                result |-> r.result, users |-> users, documents |-> documents]
    /\ documents' = r.documents
    /\ IF r.documents = documents
       THEN UNCHANGED budget
       ELSE budget > 0 /\ budget' = budget - 1
    /\ redeemed' =
         [l \in LinkIds |->
            IF Holders(r.documents, l) = {} THEN 0
            ELSE IF op = "access_via_share_link" /\ r.outcome = Ok
                    /\ args.link_id = l
                 THEN redeemed[l] + 1
            ELSE redeemed[l]]
    /\ UNCHANGED threads

\* The caller has handled the outcome; the manager waits for the next call.
\* A run ends with the call that uses up the budget.
Resume ==
    /\ pc = "returned"
    /\ budget > 0
    /\ pc' = "idle"
    /\ last' = NoCall
    /\ UNCHANGED <<users, documents, role_permissions, now, uuid_counter, budget,
                   redeemed, threads>>

Tick ==
    /\ pc = "idle"
    /\ now < MaxTime
    /\ now' = now + 1
    /\ UNCHANGED <<users, documents, role_permissions, uuid_counter, pc, last, budget,
                   redeemed, threads>>

AddUser(U) ==
    \E user \in U :
        /\ Called("add_user", [user |-> user], Return(documents, <<>>))
        /\ users' = users \cup {user}
        /\ UNCHANGED <<role_permissions, now, uuid_counter>>

add_document(docs, document) == Return(Put(docs, document.id, document), <<>>)

AddDocument(U) ==
    \E document \in NewDocuments(U) :
        /\ Called("add_document", [document |-> document],
                  add_document(documents, document))
        /\ UNCHANGED <<users, role_permissions, now, uuid_counter>>

GetUserRole(U) ==
    \E u \in U, d \in DocIds :
        /\ Called("get_user_role", [user_id |-> u, document_id |-> d],
                  Return(documents, get_user_role(documents, u, d)))
        /\ UNCHANGED <<users, role_permissions, now, uuid_counter>>

CheckPermission(U) ==
    \E u \in U, d \in DocIds, p \in Permission :
        /\ Called("check_permission",
                  [user_id |-> u, document_id |-> d, permission |-> p],
                  Return(documents, check_permission(documents, u, d, p)))
        /\ UNCHANGED <<users, role_permissions, now, uuid_counter>>

AddCollaborator(U) ==
    \E d \in DocIds, u \in U, r \in Role, by \in U :
        /\ Called("add_collaborator",
                  [document_id |-> d, user_id |-> u, role |-> r, added_by |-> by],
                  add_collaborator(documents, users, now, d, u, r, by))
        /\ UNCHANGED <<users, role_permissions, now, uuid_counter>>

RemoveCollaborator(U) ==
    \E d \in DocIds, u \in U, by \in U :
        /\ Called("remove_collaborator",
                  [document_id |-> d, user_id |-> u, removed_by |-> by],
                  remove_collaborator(documents, d, u, by))
        /\ UNCHANGED <<users, role_permissions, now, uuid_counter>>

\* The (role, expires_at) arguments of create_share_link: every role and
\* every kind of expiry (none, the first instant, the last instant).
LinkArgs == {<<VIEWER, NoTime>>, <<EDITOR, 0>>, <<OWNER, MaxTime>>}

CreateShareLink(U) ==
    \E d \in DocIds, by \in U, a \in LinkArgs :
        LET res == create_share_link(documents, now, uuid_counter + 1,
                                     d, by, a[1], a[2])
        IN /\ res.outcome = Ok => uuid_counter < MaxLinks
           /\ Called("create_share_link",
                     [document_id |-> d, created_by |-> by, role |-> a[1],
                      expires_at |-> a[2]],
                     res)
           /\ uuid_counter' = IF res.outcome = Ok THEN uuid_counter + 1
                              ELSE uuid_counter
           /\ UNCHANGED <<users, role_permissions, now>>

RevokeShareLink(U) ==
    \E d \in DocIds, l \in LinkIds, by \in U :
        /\ Called("revoke_share_link",
                  [document_id |-> d, link_id |-> l, revoked_by |-> by],
                  revoke_share_link(documents, d, l, by))
        /\ UNCHANGED <<users, role_permissions, now, uuid_counter>>

\* The documents the scan of access_via_share_link may stop at: those that
\* hold link_id, in whatever order the dict yields them.
ScanStops(docs, link_id) ==
    IF Holders(docs, link_id) = {} THEN {NoDocument} ELSE Holders(docs, link_id)

AccessViaShareLink(U) ==
    \E l \in LinkIds, u \in U \cup {NoUser} :
        \E d \in ScanStops(documents, l) :
            /\ Called("access_via_share_link", [link_id |-> l, user_id |-> u],
                      access_via_share_link(documents, now, d, l, u))
            /\ UNCHANGED <<users, role_permissions, now, uuid_counter>>

ListCollaborators(U) ==
    \E d \in DocIds, u \in U :
        /\ Called("list_collaborators", [document_id |-> d, user_id |-> u],
                  list_collaborators(documents, d, u))
        /\ UNCHANGED <<users, role_permissions, now, uuid_counter>>

ListShareLinks(U) ==
    \E d \in DocIds, u \in U :
        /\ Called("list_share_links", [document_id |-> d, user_id |-> u],
                  list_share_links(documents, d, u))
        /\ UNCHANGED <<users, role_permissions, now, uuid_counter>>

\* One step of a run whose callers use the user ids U.
Step(U) ==
    \/ Tick
    \/ Resume
    \/ AddUser(U)
    \/ AddDocument(U)
    \/ GetUserRole(U)
    \/ CheckPermission(U)
    \/ AddCollaborator(U)
    \/ RemoveCollaborator(U)
    \/ CreateShareLink(U)
    \/ RevokeShareLink(U)
    \/ AccessViaShareLink(U)
    \/ ListCollaborators(U)
    \/ ListShareLinks(U)

\* Spec: two users, runs of MaxMutations changes.
Init == Setup(TwoUsers) /\ budget = MaxMutations
Next == Step(TwoUsers)
Spec == Init /\ [][Next]_vars

\* SpecThree: three users (two collaborators on a document), shorter runs.
InitThree == Setup(UserIds) /\ budget = MaxMutations - 2
NextThree == Step(UserIds)
SpecThree == InitThree /\ [][NextThree]_vars

\* A document registered with a collaborator record already in it, which
\* may be a record of its owner.
PopulatedDocuments(U) ==
    {[Document(d, o) EXCEPT !.collaborators = Put(EmptyMap, u, Collaborator(u, d, r, o, 0))] :
        d \in RegisteredDocIds, o \in U, u \in U, r \in Role}

AddPopulatedDocument(U) ==
    \E document \in PopulatedDocuments(U) :
        /\ Called("add_document", [document |-> document],
                  add_document(documents, document))
        /\ UNCHANGED <<users, role_permissions, now, uuid_counter>>

\* SpecPre: add_document also registers documents that hold a collaborator.
InitPre == Setup(TwoUsers) /\ budget = MaxMutations - 1
NextPre == Step(TwoUsers) \/ AddPopulatedDocument(TwoUsers)
SpecPre == InitPre /\ [][NextPre]_vars

\* name with the letters at the positions in some set in upper case
CaseVariants(name) ==
    {[i \in 1..Len(name) |-> IF i \in S THEN UpperChar(name[i]) ELSE name[i]] :
        S \in SUBSET (1..Len(name))}

\* The strings role_from_str is called with: the role names in every mix of
\* cases, and strings that name no role.
RoleStrings ==
    UNION {CaseVariants(RoleValue[r]) : r \in Role}
    \cup CaseVariants(<<"a", "d", "m", "i", "n">>)
    \cup {<<>>, <<"o", "w", "n", "e">>, <<"o", "w", "n", "e", "r", "s">>,
          <<" ", "o", "w", "n", "e", "r">>, <<"o", "w", "n", "e", "r", " ">>,
          <<"v", "i", "e", "w">>, <<"e", "d", "i", "t">>}

RoleFromStr ==
    \E value \in RoleStrings :
        /\ Called("role_from_str", [value |-> value],
                  [outcome |-> role_from_str(value).outcome,
                   documents |-> documents,
                   result |-> role_from_str(value).result])
        /\ UNCHANGED <<users, role_permissions, now, uuid_counter>>

\* SpecRoles: calls of role_from_str, which reads no state.
InitRoles == Setup({}) /\ budget = 1
NextRoles == RoleFromStr \/ Resume
SpecRoles == InitRoles /\ [][NextRoles]_vars

-----------------------------------------------------------------------------
(* Properties *)

Returned(op) == pc = "returned" /\ last.op = op

ExpiryArgs == Times \cup {NoTime}

\* The states in which the next call is made.  What holds of every call that
\* can be made is stated of these states, for all arguments, and of the call
\* that has returned.
Idle == pc = "idle"

\* The methods that require MANAGE, and the argument that names the actor.
ManageGated ==
    {"add_collaborator", "remove_collaborator", "create_share_link",
     "revoke_share_link", "list_share_links"}

Actor(call) ==
    CASE call.op = "add_collaborator" -> call.args.added_by
      [] call.op = "remove_collaborator" -> call.args.removed_by
      [] call.op = "create_share_link" -> call.args.created_by
      [] call.op = "revoke_share_link" -> call.args.revoked_by
      [] OTHER -> call.args.user_id

\* C1: a call of add_collaborator, remove_collaborator, create_share_link,
\* revoke_share_link or list_share_links by an actor without MANAGE on the
\* document ends with Forbidden, whatever the other arguments are (whether
\* or not the document, the user, the record or the link exists).  Stated
\* of the call that has returned and of every call that can be made in the
\* current state.
C1_ForbiddenBeforeValidation ==
    /\ (/\ pc = "returned"
        /\ last.op \in ManageGated
        /\ ~check_permission(last.documents, Actor(last),
                             last.args.document_id, MANAGE))
       => last.outcome = Forbidden
    /\ \A by \in UserIds, d \in DocIds :
         (Idle /\ ~check_permission(documents, by, d, MANAGE)) =>
           /\ \A u \in UserIds, r \in Role :
                add_collaborator(documents, users, now, d, u, r, by).outcome
                    = Forbidden
           /\ \A u \in UserIds :
                remove_collaborator(documents, d, u, by).outcome = Forbidden
           /\ \A r \in Role, e \in ExpiryArgs :
                create_share_link(documents, now, uuid_counter + 1,
                                  d, by, r, e).outcome = Forbidden
           /\ \A l \in LinkIds :
                revoke_share_link(documents, d, l, by).outcome = Forbidden
           /\ list_share_links(documents, d, by).outcome = Forbidden

\* An actor without MANAGE on a registered document was refused although
\* the user named in the call is not registered.
C1_Witness ==
    /\ Returned("add_collaborator")
    /\ last.outcome = Forbidden
    /\ last.args.document_id \in DOMAIN documents
    /\ last.args.user_id \notin users

\* Stores that hold a collaborator record of u on d, equal to docs elsewhere.
WithCollaborator(docs, d, u) ==
    IF u \in DOMAIN docs[d].collaborators THEN {docs}
    ELSE {[docs EXCEPT ![d].collaborators =
                           Put(@, u, Collaborator(u, d, r, docs[d].owner_id, 0))] :
             r \in Role}

WithoutCollaborator(docs, d, u) ==
    [docs EXCEPT ![d].collaborators = Del(@, u)]

\* Stores that hold link l on d, equal to docs elsewhere.
WithLink(docs, d, l) ==
    IF l \in DOMAIN docs[d].share_links THEN {docs}
    ELSE {[docs EXCEPT ![d].share_links =
                           Put(@, l, ShareLink(l, d, docs[d].owner_id, 0, NoTime, r))] :
             r \in Role}

WithoutLink(docs, d, l) == [docs EXCEPT ![d].share_links = Del(@, l)]

C2_TargetUserHidden ==
    \A by \in UserIds, d \in DOMAIN documents, u \in UserIds :
         \A A \in WithCollaborator(documents, d, u) :
           LET B == WithoutCollaborator(documents, d, u)
           IN /\ (/\ ~check_permission(A, by, d, MANAGE)
                  /\ ~check_permission(B, by, d, MANAGE))
                 => /\ remove_collaborator(A, d, u, by) = Raise(A, Forbidden)
                    /\ remove_collaborator(B, d, u, by) = Raise(B, Forbidden)
                    /\ \A r \in Role, usrs \in {users \cup {u}, users \ {u}} :
                         /\ add_collaborator(A, usrs, now, d, u, r, by)
                                = Raise(A, Forbidden)
                         /\ add_collaborator(B, usrs, now, d, u, r, by)
                                = Raise(B, Forbidden)
              /\ (/\ ~check_permission(A, by, d, VIEW)
                  /\ ~check_permission(B, by, d, VIEW))
                 => /\ list_collaborators(A, d, by) = Raise(A, Forbidden)
                    /\ list_collaborators(B, d, by) = Raise(B, Forbidden)
C2_TargetLinkHidden ==
    \A by \in UserIds, d \in DOMAIN documents, l \in LinkIds :
         \A A \in WithLink(documents, d, l) :
           LET B == WithoutLink(documents, d, l)
           IN ~check_permission(A, by, d, MANAGE)
              => /\ revoke_share_link(A, d, l, by) = Raise(A, Forbidden)
                 /\ revoke_share_link(B, d, l, by) = Raise(B, Forbidden)
                 /\ list_share_links(A, d, by) = Raise(A, Forbidden)
                 /\ list_share_links(B, d, by) = Raise(B, Forbidden)

\* C2: take the current store and a store that differs from it only in
\* whether the target of the call exists (the user in the registry, the
\* collaborator record, the share link).  A gated call by an actor who lacks
\* the required permission in both stores ends with Forbidden in both and
\* changes neither; and a call that has returned Forbidden changed nothing.
C2_ForbiddenHidesExistence ==
    /\ (pc = "returned" /\ last.outcome = Forbidden)
       => documents = last.documents
    /\ Idle => C2_TargetUserHidden
    /\ Idle => C2_TargetLinkHidden

\* An actor without MANAGE was refused the removal of a record that exists.
C2_Witness ==
    /\ Returned("remove_collaborator")
    /\ last.outcome = Forbidden
    /\ last.args.document_id \in DOMAIN documents
    /\ last.args.user_id
           \in DOMAIN documents[last.args.document_id].collaborators

\* C3: get_user_role is absent for a document that is not in the store,
\* owner for the document's owner even when the owner also has a collaborator
\* record, the role of the user's record otherwise, absent without a record;
\* check_permission is has_permission of that role: everything for the owner,
\* VIEW and EDIT for an editor, VIEW for a viewer, nothing without a role.
C3_RoleOf(docs, u, d) ==
    LET role == get_user_role(docs, u, d)
    IN /\ d \notin DOMAIN docs => role = NoRole
       /\ d \in DOMAIN docs =>
            /\ docs[d].owner_id = u => role = OWNER
            /\ (docs[d].owner_id # u /\ u \in DOMAIN docs[d].collaborators)
               => role = docs[d].collaborators[u].role
            /\ (docs[d].owner_id # u /\ u \notin DOMAIN docs[d].collaborators)
               => role = NoRole
       /\ \A p \in Permission :
            check_permission(docs, u, d, p) <=>
                \/ role = OWNER
                \/ role = EDITOR /\ p \in {VIEW, EDIT}
                \/ role = VIEWER /\ p = VIEW

C3_UserRole ==
    /\ Idle => \A u \in UserIds, d \in DocIds : C3_RoleOf(documents, u, d)
    /\ Returned("get_user_role") =>
         /\ C3_RoleOf(last.documents, last.args.user_id, last.args.document_id)
         /\ last.result = get_user_role(last.documents, last.args.user_id,
                                        last.args.document_id)
    /\ Returned("check_permission") =>
         last.result = has_permission(
             get_user_role(last.documents, last.args.user_id,
                           last.args.document_id),
             last.args.permission)

\* get_user_role answered owner for an owner who also has a record of a
\* lesser role.
C3_Witness ==
    /\ Returned("get_user_role")
    /\ last.result = OWNER
    /\ last.args.document_id \in DOMAIN documents
    /\ last.args.user_id
           \in DOMAIN documents[last.args.document_id].collaborators
    /\ documents[last.args.document_id].collaborators[last.args.user_id].role
           = VIEWER

GrantTable ==
    {<<OWNER, VIEW>>, <<OWNER, EDIT>>, <<OWNER, MANAGE>>,
     <<EDITOR, VIEW>>, <<EDITOR, EDIT>>,
     <<VIEWER, VIEW>>}

\* C4: has_permission(r, p) is true exactly for the pairs of the grant table
\* and false for an absent role; every role grants VIEW; the permission sets
\* are nested, owner over editor over viewer; the table is the same in every
\* state; and check_permission answers by it.
C4_GrantTable ==
    /\ \A r \in Role \cup {NoRole}, p \in Permission :
         has_permission(r, p) <=> <<r, p>> \in GrantTable
    /\ \A r \in Role : can(r, VIEW)
    /\ \A p \in Permission :
         /\ can(VIEWER, p) => can(EDITOR, p)
         /\ can(EDITOR, p) => can(OWNER, p)
    /\ role_permissions = [r \in Role |-> {p \in Permission : <<r, p>> \in GrantTable}]
    /\ Returned("check_permission") =>
         (last.result <=>
            <<get_user_role(last.documents, last.args.user_id,
                            last.args.document_id),
              last.args.permission>> \in GrantTable)

\* An editor was denied MANAGE.
C4_Witness ==
    /\ Returned("check_permission")
    /\ last.result = FALSE
    /\ last.args.permission = MANAGE
    /\ get_user_role(documents, last.args.user_id, last.args.document_id) = EDITOR

\* C5: no document holds a collaborator record of its own owner.
C5_OwnerHasNoRecord ==
    \A d \in DOMAIN documents :
        /\ documents[d].owner_id \notin DOMAIN documents[d].collaborators
        /\ \A u \in DOMAIN documents[d].collaborators :
             documents[d].collaborators[u].user_id # documents[d].owner_id

\* The owner was refused as a collaborator of a document that has one.
C5_Witness ==
    /\ Returned("add_collaborator")
    /\ last.outcome = OwnerAsCollaborator
    /\ documents[last.args.document_id].collaborators # EmptyMap

\* The call that has returned is add_collaborator(d, the owner of d, ...) on
\* a registered document d.
OwnerWasAdded ==
    /\ Returned("add_collaborator")
    /\ last.args.document_id \in DOMAIN last.documents
    /\ last.args.user_id = last.documents[last.args.document_id].owner_id

\* C6 as claimed: adding the owner of a registered document always fails
\* with InvalidOperation, whoever adds and whether or not the owner is a
\* registered user.
C6_AlwaysInvalidOperation ==
    OwnerWasAdded => last.outcome = OwnerAsCollaborator

\* C6: adding the owner of a registered document always fails and stores
\* nothing, for every role: with Forbidden when added_by lacks MANAGE,
\* otherwise with NotFound when the owner is not a registered user, otherwise
\* with InvalidOperation.
C6_OwnerRefused(docs, usrs, d, r, by, res) ==
    /\ res.documents = docs
    /\ res.outcome =
         IF ~check_permission(docs, by, d, MANAGE) THEN Forbidden
         ELSE IF docs[d].owner_id \notin usrs THEN UserNotFound
         ELSE OwnerAsCollaborator

C6_OwnerAlwaysRefused ==
    /\ OwnerWasAdded =>
         /\ documents = last.documents
         /\ C6_OwnerRefused(last.documents, users, last.args.document_id,
                            last.args.role, last.args.added_by,
                            [outcome |-> last.outcome, documents |-> documents])
    /\ Idle => \A d \in DOMAIN documents, r \in Role, by \in UserIds :
         C6_OwnerRefused(documents, users, d, r, by,
             add_collaborator(documents, users, now, d,
                              documents[d].owner_id, r, by))

\* A registered owner was refused with InvalidOperation.
C6_Witness ==
    /\ OwnerWasAdded
    /\ last.outcome = OwnerAsCollaborator
    /\ last.args.user_id \in users

\* C7 as claimed: no collaborator record has the role owner.
C7_NoOwnerRoleRecord ==
    \A d \in DOMAIN documents :
        \A u \in DOMAIN documents[d].collaborators :
            documents[d].collaborators[u].role # OWNER

\* C8 as claimed: a call of a method that requires MANAGE by a user who is
\* not the owner of the document never succeeds.
C8_OnlyOwnerManages ==
    (/\ pc = "returned"
     /\ last.op \in ManageGated
     /\ last.args.document_id \in DOMAIN last.documents
     /\ Actor(last) # last.documents[last.args.document_id].owner_id)
    => last.outcome # Ok

\* What a successful add_collaborator(d, u, r, by) at time t leaves: before
\* and after are the collaborators of d.
Added(before, after, result, d, u, r, by, t) ==
    LET record == [user_id |-> u, document_id |-> d, role |-> r,
                   added_by |-> by, added_at |-> t, last_accessed |-> NoTime]
    IN /\ DOMAIN after = DOMAIN before \cup {u}
       /\ after[u] = record
       /\ result = record
       /\ Cardinality({k \in DOMAIN after : after[k].user_id = u}) = 1
       /\ \A k \in DOMAIN before \ {u} : after[k] = before[k]

\* C9: a successful add_collaborator(d, u, r, by) stores under key u of d
\* exactly one record of u, with document d, role r and added_by by, and
\* returns it; get_user_role(u, d) is then r; the other records of d are as
\* they were.
C9_AddStoresRecord ==
    /\ (Returned("add_collaborator") /\ last.outcome = Ok) =>
         /\ Added(last.documents[last.args.document_id].collaborators,
                  documents[last.args.document_id].collaborators,
                  last.result, last.args.document_id, last.args.user_id,
                  last.args.role, last.args.added_by, now)
         /\ get_user_role(documents, last.args.user_id, last.args.document_id)
                = last.args.role
    /\ Idle => \A d \in DocIds, u \in UserIds, r \in Role, by \in UserIds :
         LET res == add_collaborator(documents, users, now, d, u, r, by)
         IN res.outcome = Ok =>
              /\ Added(documents[d].collaborators,
                       res.documents[d].collaborators, res.result,
                       d, u, r, by, now)
              /\ get_user_role(res.documents, u, d) = r

\* A collaborator was added to a document that had another one, who is
\* still there.
C9_Witness ==
    /\ Returned("add_collaborator")
    /\ last.outcome = Ok
    /\ last.args.role = EDITOR
    /\ \E k \in DOMAIN last.documents[last.args.document_id].collaborators :
         /\ k # last.args.user_id
         /\ k \in DOMAIN documents[last.args.document_id].collaborators

\* The role every collaborator record assigns.
RoleAssignment(docs) ==
    [d \in DOMAIN docs |->
        [u \in DOMAIN docs[d].collaborators |-> docs[d].collaborators[u].role]]

\* The call that has returned is a successful add_collaborator of a user who
\* had a record on the document.
ReAdded ==
    /\ Returned("add_collaborator")
    /\ last.outcome = Ok
    /\ last.args.user_id
           \in DOMAIN last.documents[last.args.document_id].collaborators

\* C10: add_collaborator of a user who already has a record on the document
\* is not refused for that (it succeeds when added_by has MANAGE); it leaves
\* the number of records as it was and replaces role, added_by and added_at
\* by the new values, last_accessed becoming unset; and adding a second time
\* with the same arguments leaves the role assignment of the first.
C10_ReAddOverwrites ==
    /\ ReAdded =>
         LET before == last.documents[last.args.document_id].collaborators
             after == documents[last.args.document_id].collaborators
         IN /\ Cardinality(DOMAIN after) = Cardinality(DOMAIN before)
            /\ after[last.args.user_id].role = last.args.role
            /\ after[last.args.user_id].added_by = last.args.added_by
            /\ after[last.args.user_id].added_at = now
            /\ after[last.args.user_id].last_accessed = NoTime
    /\ Idle => \A d \in DOMAIN documents, u \in UserIds, r \in Role, by \in UserIds :
         LET once == add_collaborator(documents, users, now, d, u, r, by)
         IN /\ (/\ u \in DOMAIN documents[d].collaborators
                /\ check_permission(documents, by, d, MANAGE))
               => once.outcome = Ok
            /\ once.outcome = Ok =>
                 \A t \in now..MaxTime :
                    LET twice == add_collaborator(once.documents, users, t,
                                                  d, u, r, by)
                    IN /\ RoleAssignment(twice.documents)
                            = RoleAssignment(once.documents)
                       /\ DOMAIN twice.documents[d].collaborators
                            = DOMAIN once.documents[d].collaborators

\* A collaborator who had used a share link was added again with another
\* role.
C10_Witness ==
    /\ ReAdded
    /\ LET before == last.documents[last.args.document_id].collaborators
       IN /\ before[last.args.user_id].last_accessed # NoTime
          /\ before[last.args.user_id].role # last.args.role

\* The stores one call of a method other than add_document can leave, the
\* calls add_collaborator(d0, u0, ...) excepted.
CollaborationCalls(docs, d0, u0) ==
    {docs}
    \cup {add_collaborator(docs, users, now, d, u, r, by).documents :
            <<d, u, r, by>> \in {x \in DocIds \X UserIds \X Role \X UserIds :
                                    <<x[1], x[2]>> # <<d0, u0>>}}
    \cup {remove_collaborator(docs, d, u, by).documents :
            <<d, u, by>> \in DocIds \X UserIds \X UserIds}
    \cup {create_share_link(docs, now, uuid_counter + 1, d, by, a[1], a[2]).documents :
            <<d, by, a>> \in DocIds \X UserIds \X LinkArgs}
    \cup {revoke_share_link(docs, d, l, by).documents :
            <<d, l, by>> \in DocIds \X LinkIds \X UserIds}
    \cup UNION {{access_via_share_link(docs, now, d, l, u).documents :
                    d \in ScanStops(docs, l)} :
                <<l, u>> \in LinkIds \X (UserIds \cup {NoUser})}

\* The stores one call of add_document can leave.
Registrations(docs) ==
    {add_document(docs, document).documents : document \in NewDocuments(UserIds)}

\* What a successful remove_collaborator(d, u, by) leaves of the store before.
Removed(before, after, d, u) ==
    /\ DOMAIN after[d].collaborators = DOMAIN before[d].collaborators \ {u}
    /\ \A k \in DOMAIN after[d].collaborators :
         after[d].collaborators[k] = before[d].collaborators[k]
    /\ after[d].share_links = before[d].share_links
    /\ \A e \in DOMAIN before \ {d} : e \in DOMAIN after /\ after[e] = before[e]
    /\ get_user_role(after, u, d) = NoRole
    /\ \A p \in Permission : ~check_permission(after, u, d, p)

C11_RemoveDeletes ==
    /\ (Returned("remove_collaborator") /\ last.outcome = Ok) =>
         Removed(last.documents, documents,
                 last.args.document_id, last.args.user_id)
    /\ Idle => \A d \in DocIds, u \in UserIds, by \in UserIds :
         LET res == remove_collaborator(documents, d, u, by)
         IN res.outcome = Ok => Removed(documents, res.documents, d, u)

C12_SecondRemoveNotFound ==
    /\ (/\ Returned("remove_collaborator")
        /\ last.args.document_id \in DOMAIN last.documents
        /\ check_permission(last.documents, last.args.removed_by,
                            last.args.document_id, MANAGE)
        /\ last.args.user_id
             \notin DOMAIN last.documents[last.args.document_id].collaborators)
       => last.outcome = NotCollaborator /\ documents = last.documents
    /\ Idle => \A d \in DOMAIN documents, u \in UserIds, by \in UserIds :
         LET first == remove_collaborator(documents, d, u, by)
         IN /\ (/\ check_permission(documents, by, d, MANAGE)
                /\ u \notin DOMAIN documents[d].collaborators)
               => first = Raise(documents, NotCollaborator)
            /\ first.outcome = Ok =>
                 remove_collaborator(first.documents, d, u, by)
                     = Raise(first.documents, NotCollaborator)
    /\ Idle => \A d \in DOMAIN documents, l \in LinkIds, by \in UserIds :
         LET first == revoke_share_link(documents, d, l, by)
         IN first.outcome = Ok =>
              revoke_share_link(first.documents, d, l, by)
                  = Return(first.documents, <<>>)

\* The methods that take a document id.
OnDocument ==
    ManageGated \cup {"list_collaborators"}

\* The outcomes of the six methods called with document id d, for all other
\* arguments.
OutcomesOn(d) ==
    {add_collaborator(documents, users, now, d, u, r, by).outcome :
        <<u, r, by>> \in UserIds \X Role \X UserIds}
    \cup {remove_collaborator(documents, d, u, by).outcome :
        <<u, by>> \in UserIds \X UserIds}
    \cup {create_share_link(documents, now, uuid_counter + 1, d, by, r, e).outcome :
        <<by, r, e>> \in UserIds \X Role \X ExpiryArgs}
    \cup {revoke_share_link(documents, d, l, by).outcome :
        <<l, by>> \in LinkIds \X UserIds}
    \cup {list_collaborators(documents, d, u).outcome : u \in UserIds}
    \cup {list_share_links(documents, d, u).outcome : u \in UserIds}

C14_UnregisteredUserRefused ==
    /\ (/\ Returned("add_collaborator")
        /\ last.args.document_id \in DOMAIN last.documents
        /\ check_permission(last.documents, last.args.added_by,
                            last.args.document_id, MANAGE)
        /\ last.args.user_id \notin last.users)
       => last.outcome = UserNotFound /\ documents = last.documents
    /\ (Returned("add_collaborator") /\ last.outcome = Ok)
       => last.args.user_id \in last.users
    /\ \A d \in DOMAIN documents : DOMAIN documents[d].collaborators \subseteq users
    /\ Idle => \A d \in DOMAIN documents, u \in UserIds, r \in Role, by \in UserIds :
         LET res == add_collaborator(documents, users, now, d, u, r, by)
         IN /\ (check_permission(documents, by, d, MANAGE) /\ u \notin users)
               => res = Raise(documents, UserNotFound)
            /\ res.outcome = Ok => u \in users

\* The owner of a document, a registered user, tried to add a user id that
\* is not registered.
C14_Witness ==
    /\ Returned("add_collaborator")
    /\ last.outcome = UserNotFound
    /\ last.args.added_by \in last.users
    /\ last.args.user_id # last.documents[last.args.document_id].owner_id

\* The ids of the links in the store.
LinkIdsIn(docs) ==
    UNION {DOMAIN docs[d].share_links : d \in DOMAIN docs}

\* What a successful create_share_link(d, by, r, e) at time t leaves of the
\* store before, result being what it returns.
Created(before, after, result, d, by, r, e, t) ==
    /\ result = [id |-> result.id, document_id |-> d, created_by |-> by,
                 created_at |-> t, expires_at |-> e, access_role |-> r,
                 is_active |-> TRUE, access_count |-> 0]
    /\ result.id \notin LinkIdsIn(before)
    /\ DOMAIN after[d].share_links
         = DOMAIN before[d].share_links \cup {result.id}
    /\ after[d].share_links[result.id] = result
    /\ \A l \in DOMAIN before[d].share_links :
         after[d].share_links[l] = before[d].share_links[l]
    /\ after[d].collaborators = before[d].collaborators
    /\ DOMAIN after = DOMAIN before
    /\ \A x \in DOMAIN before \ {d} : after[x] = before[x]

\* C15: a successful create_share_link(d, by, r, e) adds to d one link, under
\* an id that no link of the store has, with is_active true, access_count 0,
\* access_role r (viewer when the argument is left out), expires_at e
\* whether or not e has passed, document_id d and created_by by, and returns
\* it; the other links, the collaborators and the other documents are as
\* they were.  It succeeds for every e when by has MANAGE on d.
C15_CreateAddsOneLink ==
    /\ (Returned("create_share_link") /\ last.outcome = Ok) =>
         Created(last.documents, documents, last.result,
                 last.args.document_id, last.args.created_by,
                 last.args.role, last.args.expires_at, now)
    /\ Idle => \A d \in DOMAIN documents, by \in UserIds :
         check_permission(documents, by, d, MANAGE) =>
           /\ \A r \in Role, e \in ExpiryArgs :
                LET res == create_share_link(documents, now, uuid_counter + 1,
                                             d, by, r, e)
                IN /\ res.outcome = Ok
                   /\ Created(documents, res.documents, res.result,
                              d, by, r, e, now)
           /\ LET res == create_share_link_defaults(documents, now,
                                                    uuid_counter + 1, d, by)
              IN /\ res.outcome = Ok
                 /\ Created(documents, res.documents, res.result,
                            d, by, VIEWER, NoTime, now)

\* A link whose expires_at has passed was created on a document that held
\* a link and a collaborator.
C15_Witness ==
    /\ Returned("create_share_link")
    /\ last.outcome = Ok
    /\ last.args.expires_at # NoTime
    /\ last.args.expires_at < now
    /\ last.documents[last.args.document_id].share_links # EmptyMap
    /\ last.documents[last.args.document_id].collaborators # EmptyMap

\* The store after n redemptions in a row, at the current time, of link l
\* of document d by user u.
RECURSIVE RedeemedTimes(_, _, _, _, _)
RedeemedTimes(docs, d, l, u, n) ==
    IF n = 0 THEN docs
    ELSE access_via_share_link(RedeemedTimes(docs, d, l, u, n - 1),
                               now, d, l, u).documents

\* The link the call of access_via_share_link that has returned stopped at.
RedeemedLink(docs) ==
    LET l == last.args.link_id
    IN docs[CHOOSE d \in Holders(docs, l) : TRUE].share_links[l]

\* C16: a successful access_via_share_link adds exactly 1 to the
\* access_count of the link and a failed one leaves the store as it was; the
\* access_count of every link in the store is the number of successful
\* redemptions of that link since it was created; n redemptions in a row of
\* a link that is active and has no expires_at add n.
C16_AccessCount ==
    /\ \A d \in DOMAIN documents :
         \A l \in DOMAIN documents[d].share_links :
            documents[d].share_links[l].access_count = redeemed[l]
    /\ Returned("access_via_share_link") =>
         IF last.outcome = Ok
         THEN RedeemedLink(documents).access_count
                = RedeemedLink(last.documents).access_count + 1
         ELSE documents = last.documents
    /\ Idle => \A l \in LinkIds, u \in UserIds \cup {NoUser} :
         \A d \in ScanStops(documents, l) :
            LET res == access_via_share_link(documents, now, d, l, u)
            IN /\ res.outcome # Ok => res.documents = documents
               /\ res.outcome = Ok =>
                    res.documents[d].share_links[l].access_count
                        = documents[d].share_links[l].access_count + 1
               /\ (/\ d # NoDocument
                   /\ documents[d].share_links[l].is_active
                   /\ documents[d].share_links[l].expires_at = NoTime)
                  => \A n \in 0..MaxRedemptions :
                        RedeemedTimes(documents, d, l, u, n)[d].share_links[l].access_count
                            = documents[d].share_links[l].access_count + n

\* A link was redeemed for the second time, after a redemption of it that
\* failed or not.
C16_Witness ==
    /\ Returned("access_via_share_link")
    /\ last.outcome = Ok
    /\ RedeemedLink(documents).access_count = 2
    /\ redeemed[last.args.link_id] = 2

\* C17: access_via_share_link of a link whose is_active is false fails with
\* "no longer active" and leaves the store, access_count included, as it
\* was, whether the link has no expires_at, one that has not passed or one
\* that has passed.
C17_RevokedIsInactive ==
    /\ (/\ Returned("access_via_share_link")
        /\ Holders(last.documents, last.args.link_id) # {}
        /\ ~RedeemedLink(last.documents).is_active)
       => last.outcome = LinkInactive /\ documents = last.documents
    /\ Idle => \A l \in LinkIds, u \in UserIds \cup {NoUser} :
         \A d \in Holders(documents, l) :
            ~documents[d].share_links[l].is_active =>
               access_via_share_link(documents, now, d, l, u)
                   = Raise(documents, LinkInactive)

\* A revoked link whose expires_at has passed was redeemed.
C17_Witness ==
    /\ Returned("access_via_share_link")
    /\ last.outcome = LinkInactive
    /\ RedeemedLink(documents).expires_at # NoTime
    /\ RedeemedLink(documents).expires_at < now

\* expires_at is set and strictly before t.
Expired(share_link, t) ==
    share_link.expires_at # NoTime /\ share_link.expires_at < t

\* C18: access_via_share_link of an active link fails with "has expired"
\* exactly when expires_at is set and strictly before now, and succeeds
\* otherwise (at now = expires_at, and always without expires_at); the
\* failure leaves the store as it was (is_active true, access_count
\* unchanged); create_share_link accepts an expires_at that has passed and
\* the first redemption of that link fails with "has expired".
C18_ExpiredExactly ==
    /\ (/\ Returned("access_via_share_link")
        /\ Holders(last.documents, last.args.link_id) # {}
        /\ RedeemedLink(last.documents).is_active)
       => IF Expired(RedeemedLink(last.documents), now)
          THEN /\ last.outcome = LinkExpired
               /\ documents = last.documents
               /\ RedeemedLink(documents).is_active
          ELSE last.outcome = Ok
    /\ Idle => \A l \in LinkIds, u \in UserIds \cup {NoUser} :
         \A d \in Holders(documents, l) :
            documents[d].share_links[l].is_active =>
               LET res == access_via_share_link(documents, now, d, l, u)
               IN IF Expired(documents[d].share_links[l], now)
                  THEN res = Raise(documents, LinkExpired)
                  ELSE res.outcome = Ok
    /\ Idle => \A d \in DOMAIN documents, by \in UserIds, r \in Role,
                  e \in {t \in Times : t < now}, u \in UserIds \cup {NoUser} :
         check_permission(documents, by, d, MANAGE) =>
            LET made == create_share_link(documents, now, uuid_counter + 1,
                                          d, by, r, e)
            IN /\ made.outcome = Ok
               /\ access_via_share_link(made.documents, now, d,
                                        uuid_counter + 1, u)
                    = Raise(made.documents, LinkExpired)

\* A link created with an expires_at that had passed was redeemed for the
\* first time.
C18_Witness ==
    /\ Returned("access_via_share_link")
    /\ last.outcome = LinkExpired
    /\ RedeemedLink(documents).expires_at < RedeemedLink(documents).created_at
    /\ RedeemedLink(documents).access_count = 0
    /\ RedeemedLink(documents).is_active

\* A link was redeemed at the instant expires_at.
C18_AtDeadline ==
    /\ Returned("access_via_share_link")
    /\ last.outcome = Ok
    /\ RedeemedLink(documents).expires_at = now

\* C19: a successful access_via_share_link(l, u) returns the document that
\* holds l and the access_role of l; outcome and result are the same for
\* every u: none, the owner, a collaborator of any role, anyone else.
C19_ReturnsLinkRole ==
    /\ (Returned("access_via_share_link") /\ last.outcome = Ok) =>
         /\ last.result[1] \in Holders(last.documents, last.args.link_id)
         /\ last.result[2]
              = last.documents[last.result[1]].share_links[last.args.link_id].access_role
    /\ Idle => \A l \in LinkIds : \A d \in Holders(documents, l) :
         \A u \in UserIds \cup {NoUser} :
            LET res == access_via_share_link(documents, now, d, l, u)
            IN /\ res.outcome = Ok =>
                    res.result = <<d, documents[d].share_links[l].access_role>>
               /\ \A v \in UserIds \cup {NoUser} :
                    LET other == access_via_share_link(documents, now, d, l, v)
                    IN other.outcome = res.outcome /\ other.result = res.result

\* A collaborator redeemed a link whose access_role is not the role of the
\* collaborator's record.
C19_Witness ==
    /\ Returned("access_via_share_link")
    /\ last.outcome = Ok
    /\ last.args.user_id \in DOMAIN last.documents[last.result[1]].collaborators
    /\ last.documents[last.result[1]].collaborators[last.args.user_id].role
         # last.result[2]

\* What a successful access_via_share_link(l, u) at time t that stopped at
\* document d leaves of the store before.
Accessed(before, after, d, l, u, t) ==
    /\ DOMAIN after = DOMAIN before
    /\ \A x \in DOMAIN before \ {d} : after[x] = before[x]
    /\ after[d].id = before[d].id
    /\ after[d].owner_id = before[d].owner_id
    /\ DOMAIN after[d].share_links = DOMAIN before[d].share_links
    /\ \A k \in DOMAIN before[d].share_links \ {l} :
         after[d].share_links[k] = before[d].share_links[k]
    /\ after[d].share_links[l]
         = [before[d].share_links[l] EXCEPT !.access_count = @ + 1]
    /\ DOMAIN after[d].collaborators = DOMAIN before[d].collaborators
    /\ \A k \in DOMAIN before[d].collaborators :
         after[d].collaborators[k]
           = IF k = u
             THEN [before[d].collaborators[k] EXCEPT !.last_accessed = t]
             ELSE before[d].collaborators[k]
    /\ \A v \in UserIds, x \in DocIds :
         /\ get_user_role(after, v, x) = get_user_role(before, v, x)
         /\ \A p \in Permission :
              check_permission(after, v, x, p) = check_permission(before, v, x, p)

\* C20: a successful access_via_share_link(l, u) changes the access_count of
\* l and, when u has a collaborator record on the document of l, the
\* last_accessed of that record, and nothing else: no record is created or
\* removed and no role changes, so get_user_role and check_permission are
\* the same for every user before and after.
C20_AccessChangesOnly ==
    /\ (Returned("access_via_share_link") /\ last.outcome = Ok) =>
         Accessed(last.documents, documents, last.result[1],
                  last.args.link_id, last.args.user_id, now)
    /\ Idle => \A l \in LinkIds : \A d \in Holders(documents, l) :
         \A u \in UserIds \cup {NoUser} :
            LET res == access_via_share_link(documents, now, d, l, u)
            IN res.outcome = Ok =>
                 Accessed(documents, res.documents, d, l, u, now)

\* A registered user who is neither the owner nor a collaborator redeemed a
\* link.
C20_Witness ==
    /\ Returned("access_via_share_link")
    /\ last.outcome = Ok
    /\ last.args.user_id \in users
    /\ last.args.user_id # documents[last.result[1]].owner_id
    /\ last.args.user_id \notin DOMAIN documents[last.result[1]].collaborators

\* What a successful revoke_share_link(d, l, by) leaves of the store before.
Revoked(before, after, d, l) ==
    /\ DOMAIN after = DOMAIN before
    /\ \A x \in DOMAIN before \ {d} : after[x] = before[x]
    /\ after[d].id = before[d].id
    /\ after[d].owner_id = before[d].owner_id
    /\ after[d].collaborators = before[d].collaborators
    /\ DOMAIN after[d].share_links = DOMAIN before[d].share_links
    /\ \A k \in DOMAIN before[d].share_links \ {l} :
         after[d].share_links[k] = before[d].share_links[k]
    /\ ~after[d].share_links[l].is_active
    /\ after[d].share_links[l]
         = [before[d].share_links[l] EXCEPT !.is_active = FALSE]

\* C21: revoke_share_link(d, l, by) by an actor with MANAGE on d, of a link
\* l of d, succeeds, sets is_active of l to false and changes nothing else
\* (access_count, expires_at, access_role, the other links, the
\* collaborators); a second revoke of l succeeds too and leaves the store as
\* the first left it.
C21_RevokeClearsActive ==
    /\ (Returned("revoke_share_link") /\ last.outcome = Ok) =>
         Revoked(last.documents, documents,
                 last.args.document_id, last.args.link_id)
    /\ Idle => \A d \in DOMAIN documents, by \in UserIds :
         \A l \in DOMAIN documents[d].share_links :
            check_permission(documents, by, d, MANAGE) =>
               LET first == revoke_share_link(documents, d, l, by)
                   second == revoke_share_link(first.documents, d, l, by)
               IN /\ first.outcome = Ok
                  /\ Revoked(documents, first.documents, d, l)
                  /\ second = Return(first.documents, <<>>)

\* A link that had been redeemed and revoked was revoked again.
C21_Witness ==
    /\ Returned("revoke_share_link")
    /\ last.outcome = Ok
    /\ ~last.documents[last.args.document_id].share_links[last.args.link_id].is_active
    /\ documents[last.args.document_id].share_links[last.args.link_id].access_count > 0

\* The links of docs whose is_active is false.
Inactive(docs) ==
    {l \in LinkIdsIn(docs) :
        \E d \in Holders(docs, l) : ~docs[d].share_links[l].is_active}

\* C22: a link whose is_active is false is never active again, whatever is
\* called, and every redemption of it fails.
C22_RevokedIsTerminal ==
    /\ pc = "returned" =>
         \A l \in Inactive(last.documents) :
            \A d \in Holders(documents, l) : ~documents[d].share_links[l].is_active
    /\ (/\ Returned("access_via_share_link")
        /\ last.args.link_id \in Inactive(last.documents))
       => last.outcome # Ok
    /\ Idle => \A l \in Inactive(documents) :
         /\ \A d \in ScanStops(documents, l), u \in UserIds \cup {NoUser} :
              access_via_share_link(documents, now, d, l, u).outcome # Ok
         /\ \A after \in CollaborationCalls(documents, NoDocument, NoUser)
                           \cup Registrations(documents) :
              \A d \in Holders(after, l) : ~after[d].share_links[l].is_active

\* A link that had been redeemed was revoked, and was then refused.
C22_Witness ==
    /\ Returned("access_via_share_link")
    /\ last.outcome = LinkInactive
    /\ redeemed[last.args.link_id] > 0

\* The collaborator records stored on document d.
RecordsOf(docs, d) ==
    {docs[d].collaborators[u] : u \in DOMAIN docs[d].collaborators}

\* C23: list_collaborators(d, u) succeeds exactly when u has VIEW on d: for
\* the owner and for every user with a collaborator record on d, of any
\* role; it fails with Forbidden for a user without a role on d.  When it
\* succeeds it returns the collaborator records stored on d, and it never
\* changes the store.
C23_ListCollaborators ==
    /\ Returned("list_collaborators") =>
         /\ documents = last.documents
         /\ last.outcome \in {Ok, Forbidden}
         /\ last.outcome = Ok <=>
              check_permission(last.documents, last.args.user_id,
                               last.args.document_id, VIEW)
         /\ last.outcome = Ok =>
              last.result = RecordsOf(last.documents, last.args.document_id)
    /\ Idle => \A d \in DocIds, u \in UserIds :
         LET res == list_collaborators(documents, d, u)
             listed == /\ d \in DOMAIN documents
                       /\ \/ documents[d].owner_id = u
                          \/ u \in DOMAIN documents[d].collaborators
         IN /\ listed <=> get_user_role(documents, u, d) # NoRole
            /\ listed <=> check_permission(documents, u, d, VIEW)
            /\ IF listed THEN res = Return(documents, RecordsOf(documents, d))
               ELSE res = Raise(documents, Forbidden)

\* A collaborator with the viewer role listed the collaborators.
C23_Witness ==
    /\ Returned("list_collaborators")
    /\ last.outcome = Ok
    /\ last.args.user_id \in DOMAIN documents[last.args.document_id].collaborators
    /\ documents[last.args.document_id].collaborators[last.args.user_id].role = VIEWER
    /\ last.result # {}

\* The links stored on document d.
LinksOf(docs, d) ==
    {docs[d].share_links[l] : l \in DOMAIN docs[d].share_links}

Unchanged(docs, res) == res.outcome # Ok => res.documents = docs

\* C25: a call of add_collaborator, remove_collaborator, create_share_link,
\* revoke_share_link, access_via_share_link, list_collaborators or
\* list_share_links that ends with an error leaves users and documents (every
\* collaborator record, every link) as they were before the call.
C25_FailureChangesNothing ==
    /\ (pc = "returned" /\ last.outcome # Ok) =>
         /\ documents = last.documents
         /\ users = last.users
    /\ Idle => \A d \in DocIds, by \in UserIds :
         /\ \A u \in UserIds, r \in Role :
              Unchanged(documents,
                        add_collaborator(documents, users, now, d, u, r, by))
         /\ \A u \in UserIds :
              Unchanged(documents, remove_collaborator(documents, d, u, by))
         /\ \A r \in Role, e \in ExpiryArgs :
              Unchanged(documents,
                        create_share_link(documents, now, uuid_counter + 1,
                                          d, by, r, e))
         /\ \A l \in LinkIds :
              Unchanged(documents, revoke_share_link(documents, d, l, by))
         /\ Unchanged(documents, list_collaborators(documents, d, by))
         /\ Unchanged(documents, list_share_links(documents, d, by))
    /\ Idle => \A l \in LinkIds, u \in UserIds \cup {NoUser} :
         \A d \in ScanStops(documents, l) :
            Unchanged(documents, access_via_share_link(documents, now, d, l, u))

\* add_collaborator of the owner was refused on a document that holds a
\* collaborator and a link.
C25_Witness ==
    /\ Returned("add_collaborator")
    /\ last.outcome = OwnerAsCollaborator
    /\ documents[last.args.document_id].collaborators # EmptyMap
    /\ documents[last.args.document_id].share_links # EmptyMap

\* The ids create_share_link has returned so far.
CreatedLinks == 1..uuid_counter

C26_Replaced ==
    /\ Returned("add_document")
    /\ LinkIdsIn(last.documents) # {}
    /\ LinkIdsIn(documents) = {}

\* C27: access_via_share_link with a link id that no document of the store
\* holds ends with "Share link not found" and leaves the store as it was,
\* for every user_id and without one.
C27_UnknownLinkNotFound ==
    /\ (/\ Returned("access_via_share_link")
        /\ last.args.link_id \notin LinkIdsIn(last.documents))
       => last.outcome = LinkNotFound /\ documents = last.documents
    /\ (Returned("access_via_share_link") /\ last.outcome = LinkNotFound)
       => last.args.link_id \notin LinkIdsIn(last.documents)
    /\ Idle => \A l \in LinkIds \ LinkIdsIn(documents), u \in UserIds \cup {NoUser} :
         /\ ScanStops(documents, l) = {NoDocument}
         /\ access_via_share_link(documents, now, NoDocument, l, u)
              = Raise(documents, LinkNotFound)

\* A collaborator of a document that holds a link tried an id that no link
\* has.
C27_Witness ==
    /\ Returned("access_via_share_link")
    /\ last.outcome = LinkNotFound
    /\ LinkIdsIn(documents) # {}
    /\ \E d \in DOMAIN documents :
         last.args.user_id \in DOMAIN documents[d].collaborators

\* C28: role_from_str(role.value) is role for each of the three roles;
\* role_from_str returns role for value exactly when value is role.value in
\* some mix of upper and lower case, and fails with "Unsupported role" for
\* every other value ("admin", a name with a blank around it, part of a
\* name, the empty string).
C28_RoleFromStr ==
    /\ \A r \in Role :
         role_from_str(RoleValue[r]) = [outcome |-> Ok, result |-> r]
    /\ Returned("role_from_str") =>
         /\ \A r \in Role :
              (last.outcome = Ok /\ last.result = r)
                 <=> last.args.value \in CaseVariants(RoleValue[r])
         /\ last.outcome # Ok =>
              /\ last.outcome = UnsupportedRole
              /\ \A r \in Role : last.args.value \notin CaseVariants(RoleValue[r])
         /\ documents = last.documents

\* A role name written in mixed case was converted.
C28_Witness ==
    /\ Returned("role_from_str")
    /\ last.outcome = Ok
    /\ last.result = EDITOR
    /\ last.args.value = <<"E", "d", "i", "T", "o", "R">>

\* "admin" was refused.
C28_Admin ==
    /\ Returned("role_from_str")
    /\ last.outcome = UnsupportedRole
    /\ last.args.value = <<"a", "d", "m", "i", "n">>

\* The condition each failure reports.
Condition(outcome) ==
    CASE outcome = Forbidden -> "Forbidden"
      [] outcome \in {DocumentNotFound, UserNotFound, NotCollaborator,
                      LinkNotFoundInDocument, LinkNotFound} -> "NotFound"
      [] outcome = OwnerAsCollaborator -> "InvalidOperation"
      [] outcome = LinkInactive -> "LinkInactive"
      [] outcome = LinkExpired -> "LinkExpired"
      [] outcome = UnsupportedRole -> "InvalidRole"
      [] outcome = Ok -> "None"

\* The outcomes of the calls that can be made in place of the call that has
\* failed: of the six gated methods for all arguments, or of a redemption
\* for all link ids.  A failed call leaves the store as it was.
Alternatives ==
    IF last.op = "access_via_share_link"
    THEN {access_via_share_link(documents, now, d, l, last.args.user_id).outcome :
            <<l, d>> \in {<<l, d>> \in LinkIds \X (DocIds \cup {NoDocument}) :
                            d \in ScanStops(documents, l)}}
    ELSE UNION {OutcomesOn(d) : d \in DocIds}

\* The permission each gated method requires.
Required(op) == IF op = "list_collaborators" THEN VIEW ELSE MANAGE

\* C29 as claimed: the exception class of a failed call tells its condition
\* apart from every other failure: no call of a gated method that could have
\* been made in the same state fails with the same class for a different
\* condition (Forbidden, NotFound, InvalidOperation), and no redemption
\* fails with the same class for a different condition (LinkInactive,
\* LinkExpired).
C29_DistinctKinds ==
    (pc = "returned" /\ last.outcome # Ok
        /\ last.op \in OnDocument \cup {"access_via_share_link"}) =>
        \A o \in Alternatives :
            ErrorKind(o) = ErrorKind(last.outcome)
                => Condition(o) = Condition(last.outcome)

\* C29: a failed call of a gated method raises PermissionError exactly when
\* the actor lacks the permission the method requires, and ValueError for
\* every other failure; a failed redemption raises ValueError.
C29_ForbiddenIsDistinct ==
    (pc = "returned" /\ last.outcome # Ok
        /\ last.op \in OnDocument \cup {"access_via_share_link"}) =>
        /\ ErrorKind(last.outcome) \in {"PermissionError", "ValueError"}
        /\ last.op \in OnDocument =>
             (ErrorKind(last.outcome) = "PermissionError"
                <=> ~check_permission(last.documents, Actor(last),
                                      last.args.document_id, Required(last.op)))
        /\ last.op = "access_via_share_link" =>
             ErrorKind(last.outcome) = "ValueError"

\* A caller without MANAGE on a registered document was refused.
C29_Witness ==
    /\ pc = "returned"
    /\ last.op \in ManageGated
    /\ last.args.document_id \in DOMAIN documents
    /\ last.outcome = Forbidden
    /\ ErrorKind(last.outcome) = "PermissionError"

\* The owner was refused as a collaborator while an unregistered user would
\* have been refused as not found: two conditions, one exception class.
C29_OwnerAndUnknownUser ==
    /\ Returned("add_collaborator")
    /\ last.outcome = OwnerAsCollaborator
    /\ UserNotFound \in Alternatives
    /\ ErrorKind(UserNotFound) = ErrorKind(OwnerAsCollaborator)

\* An expired link was refused while a revoked link is stored: two
\* conditions of redemption, one exception class.
C29_ExpiredAndRevoked ==
    /\ Returned("access_via_share_link")
    /\ last.outcome = LinkExpired
    /\ LinkInactive \in Alternatives
    /\ ErrorKind(LinkInactive) = ErrorKind(LinkExpired)

-----------------------------------------------------------------------------
\* Two callers inside add_collaborator and remove_collaborator at the same
\* time.  The manager holds no lock: a caller runs a method one statement at
\* a time, and the other caller's statements may fall in between.

\* document.collaborators.setdefault(user_id, collaborator): a record already
\* stored is kept
store_collaborator_setdefault(docs, t, document_id, user_id, role, added_by) ==
    LET collaborator == Collaborator(user_id, document_id, role, added_by, t)
    IN IF user_id \in DOMAIN docs[document_id].collaborators
       THEN Return(docs, docs[document_id].collaborators[user_id])
       ELSE Return([docs EXCEPT ![document_id].collaborators =
                                   Put(@, user_id, collaborator)],
                   collaborator)

\* The last statements of add_collaborator: the record is built and stored
\* under user_id, replacing a record stored there.
store_collaborator(docs, t, document_id, user_id, role, added_by) ==
    LET collaborator == Collaborator(user_id, document_id, role, added_by, t)
    IN Return([docs EXCEPT ![document_id].collaborators =
                               Put(@, user_id, collaborator)],
              collaborator)

\* The last statement of remove_collaborator: del raises KeyError when the
\* key is not in the dict.
del_collaborator(docs, document_id, user_id) ==
    IF user_id \in DOMAIN docs[document_id].collaborators
    THEN Return([docs EXCEPT ![document_id].collaborators = Del(@, user_id)],
                <<>>)
    ELSE Raise(docs, KeyError)

\* What the method a caller is in does when it runs from its first statement
\* to its last with nothing in between.
Uninterrupted(call) ==
    IF call.op = "add_collaborator"
    THEN add_collaborator(documents, users, now, call.args.document_id,
                          call.args.user_id, call.args.role, call.args.added_by)
    ELSE remove_collaborator(documents, call.args.document_id,
                             call.args.user_id, call.args.removed_by)

\* The statements of add_collaborator and remove_collaborator read the
\* users and write the collaborators of a document.
OnlyCollaborators ==
    UNCHANGED <<users, role_permissions, now, uuid_counter, pc, last, budget,
                redeemed>>

\* Caller t goes on to the next statement.
Proceeds(t, to) ==
    /\ threads' = [threads EXCEPT ![t].pc = to]
    /\ UNCHANGED documents
    /\ OnlyCollaborators

\* Caller t executes the statement that ends its call, as r says.  It is
\* recorded whether the call changed the store although its actor no longer
\* holds MANAGE, and whether the call ended as the whole method run at this
\* moment ends; the callers between their permission check and their last
\* statement are marked when the store changes under them.
Finishes(t, r) ==
    LET call == threads[t]
        whole == Uninterrupted(call)
    IN /\ documents' = r.documents
       /\ threads' =
            [c \in Callers |->
               IF c = t
               THEN [call EXCEPT
                       !.pc = "done",
                       !.outcome = r.outcome,
                       !.stale = /\ r.documents # documents
                                 /\ ~check_permission(documents, Actor(call),
                                                      call.args.document_id, MANAGE),
                       !.atomic = /\ r.outcome = whole.outcome
                                  /\ r.documents = whole.documents]
               ELSE IF r.documents # documents /\ threads[c].pc \notin {"idle", "done"}
                    THEN [threads[c] EXCEPT !.disturbed = TRUE]
               ELSE threads[c]]
       /\ OnlyCollaborators

RaceArgs ==
    [op : {"add_collaborator"},
     args : [document_id : RegisteredDocIds, user_id : TwoUsers, role : Role,
             added_by : TwoUsers]]
    \cup [op : {"remove_collaborator"},
          args : [document_id : RegisteredDocIds, user_id : TwoUsers,
                  removed_by : TwoUsers]]

\* if not self.check_permission(actor, document_id, Permission.MANAGE): raise
EntersAndChecksPermission(t) ==
    /\ threads[t].pc = "idle"
    /\ \E call \in RaceArgs :
         LET entered == [Waiting EXCEPT !.op = call.op, !.args = call.args]
         IN IF ~check_permission(documents, Actor(entered),
                                 call.args.document_id, MANAGE)
            THEN /\ threads' = [threads EXCEPT ![t] =
                                  [entered EXCEPT !.pc = "done",
                                                  !.outcome = Forbidden]]
                 /\ UNCHANGED documents
            ELSE /\ threads' = [threads EXCEPT ![t] =
                                  [entered EXCEPT !.pc = "checked"]]
                 /\ UNCHANGED documents
    /\ OnlyCollaborators

\* document = self.documents.get(document_id); if not document: raise
GetsDocument(t) ==
    /\ threads[t].pc = "checked"
    /\ IF threads[t].args.document_id \notin DOMAIN documents
       THEN Finishes(t, Raise(documents, DocumentNotFound))
       ELSE Proceeds(t, "found")

\* if user_id not in self.users: raise
AddChecksUser(t) ==
    /\ threads[t].op = "add_collaborator"
    /\ threads[t].pc = "found"
    /\ IF threads[t].args.user_id \notin users
       THEN Finishes(t, Raise(documents, UserNotFound))
       ELSE Proceeds(t, "user_found")

\* if user_id == document.owner_id: raise
AddChecksOwner(t) ==
    /\ threads[t].op = "add_collaborator"
    /\ threads[t].pc = "user_found"
    /\ IF threads[t].args.user_id = documents[threads[t].args.document_id].owner_id
       THEN Finishes(t, Raise(documents, OwnerAsCollaborator))
       ELSE Proceeds(t, "validated")

\* document.collaborators[user_id] = collaborator; return collaborator
AddStores(t) ==
    /\ threads[t].op = "add_collaborator"
    /\ threads[t].pc = "validated"
    /\ Finishes(t, store_collaborator(documents, now, threads[t].args.document_id,
                                      threads[t].args.user_id, threads[t].args.role,
                                      threads[t].args.added_by))

\* if user_id not in document.collaborators: raise
RemoveChecksCollaborator(t) ==
    /\ threads[t].op = "remove_collaborator"
    /\ threads[t].pc = "found"
    /\ IF threads[t].args.user_id
            \notin DOMAIN documents[threads[t].args.document_id].collaborators
       THEN Finishes(t, Raise(documents, NotCollaborator))
       ELSE Proceeds(t, "validated")

\* del document.collaborators[user_id]
RemoveDeletes(t) ==
    /\ threads[t].op = "remove_collaborator"
    /\ threads[t].pc = "validated"
    /\ Finishes(t, del_collaborator(documents, threads[t].args.document_id,
                                    threads[t].args.user_id))

\* The caller has the outcome of its call and may call again.
CallerReturns(t) ==
    /\ threads[t].pc = "done"
    /\ threads' = [threads EXCEPT ![t] = Waiting]
    /\ UNCHANGED documents
    /\ OnlyCollaborators

\* SpecRace: users u1 and u2, document d1 of u1, and the two callers.
InitRace ==
    /\ Setup(TwoUsers)
    /\ users = TwoUsers
    /\ DOMAIN documents = RegisteredDocIds
    /\ \A d \in DOMAIN documents : documents[d].owner_id = "u1"
    /\ budget = 0

NextRace ==
    \E t \in Callers :
        \/ EntersAndChecksPermission(t)
        \/ GetsDocument(t)
        \/ AddChecksUser(t)
        \/ AddChecksOwner(t)
        \/ AddStores(t)
        \/ RemoveChecksCollaborator(t)
        \/ RemoveDeletes(t)
        \/ CallerReturns(t)

SpecRace == InitRace /\ [][NextRace]_vars

C30_StaleCheck ==
    \E t \in Callers : threads[t].pc = "done" /\ threads[t].stale

\* Two removals of the same record: the second del found no key.
C30_KeyError ==
    \E t \in Callers : threads[t].pc = "done" /\ threads[t].outcome = KeyError

-----------------------------------------------------------------------------
\* Two callers inside access_via_share_link at the same time, while links
\* are created and revoked.  share_link.access_count += 1 reads the counter
\* and then writes it: the other caller's statements may fall in between.

\* share_link.access_count = 1: the value read is not used
count_access_restarts(docs, d, link_id, read) ==
    [docs EXCEPT ![d].share_links[link_id].access_count = 1]

\* The write of share_link.access_count += 1, after the counter was read.
count_access(docs, d, link_id, read) ==
    [docs EXCEPT ![d].share_links[link_id].access_count = read + 1]

\* The store changes as docs says: the callers that have found their link
\* and not yet written its counter are marked.
Disturbs(t, docs, after) ==
    [c \in Callers |->
       IF c = t THEN after
       ELSE IF docs # documents
               /\ threads[c].pc \in {"found", "active", "valid", "read"}
            THEN [threads[c] EXCEPT !.disturbed = TRUE]
       ELSE threads[c]]

OnlyLinks ==
    UNCHANGED <<users, role_permissions, now, pc, last, budget>>

\* create_share_link without role and expires_at, called and returned with
\* no statement of a redemption in between its own.
CreatesShareLink ==
    \E by \in TwoUsers :
        LET res == create_share_link_defaults(documents, now, uuid_counter + 1,
                                              "d1", by)
        IN /\ res.outcome = Ok
           /\ uuid_counter < MaxLinks
           /\ documents' = res.documents
           /\ uuid_counter' = uuid_counter + 1
           /\ threads' = Disturbs(0, res.documents, Waiting)
           /\ UNCHANGED redeemed
           /\ OnlyLinks

\* revoke_share_link, called and returned with no statement of a redemption
\* in between its own.
RevokesShareLink ==
    \E l \in LinkIds, by \in TwoUsers :
        LET res == revoke_share_link(documents, "d1", l, by)
        IN /\ res.outcome = Ok
           /\ documents' = res.documents
           /\ threads' = Disturbs(0, res.documents, Waiting)
           /\ UNCHANGED <<uuid_counter, redeemed>>
           /\ OnlyLinks

\* for document in self.documents.values():
\*     share_link = document.share_links.get(link_id); if share_link: ...
\* raise ValueError("Share link not found") after the loop
EntersAndFindsLink(t) ==
    /\ threads[t].pc = "idle"
    /\ \E l \in LinkIds, d \in DocIds \cup {NoDocument} :
         /\ d \in ScanStops(documents, l)
         /\ redeemed[l] < MaxRedemptions
         /\ LET entered == [Waiting EXCEPT
                              !.op = "access_via_share_link",
                              !.args = [link_id |-> l, user_id |-> NoUser],
                              !.document = d]
            IN threads' = [threads EXCEPT ![t] =
                             IF d = NoDocument
                             THEN [entered EXCEPT !.pc = "done",
                                                  !.outcome = LinkNotFound]
                             ELSE [entered EXCEPT !.pc = "found"]]
    /\ UNCHANGED <<documents, uuid_counter, redeemed>>
    /\ OnlyLinks

\* The share_link object caller t holds.
HeldLink(t) ==
    documents[threads[t].document].share_links[threads[t].args.link_id]

\* if not share_link.is_active: raise
ChecksActive(t) ==
    /\ threads[t].pc = "found"
    /\ threads' = [threads EXCEPT ![t] =
                     IF ~HeldLink(t).is_active
                     THEN [@ EXCEPT !.pc = "done", !.outcome = LinkInactive]
                     ELSE [@ EXCEPT !.pc = "active"]]
    /\ UNCHANGED <<documents, uuid_counter, redeemed>>
    /\ OnlyLinks

\* if share_link.expires_at and datetime.now() > share_link.expires_at: raise
ChecksExpiry(t) ==
    /\ threads[t].pc = "active"
    /\ threads' = [threads EXCEPT ![t] =
                     IF HeldLink(t).expires_at # NoTime /\ now > HeldLink(t).expires_at
                     THEN [@ EXCEPT !.pc = "done", !.outcome = LinkExpired]
                     ELSE [@ EXCEPT !.pc = "valid"]]
    /\ UNCHANGED <<documents, uuid_counter, redeemed>>
    /\ OnlyLinks

\* share_link.access_count += 1: the read
ReadsCount(t) ==
    /\ threads[t].pc = "valid"
    /\ threads' = [threads EXCEPT ![t] =
                     [@ EXCEPT !.pc = "read", !.read = HeldLink(t).access_count]]
    /\ UNCHANGED <<documents, uuid_counter, redeemed>>
    /\ OnlyLinks

\* share_link.access_count += 1: the write.  No statement after it raises:
\* the redemption has succeeded.  It is recorded whether the link was
\* revoked by then, and whether the links of the document are as the whole
\* method, run at this moment, leaves them.
WritesCount(t) ==
    /\ threads[t].pc = "read"
    /\ LET call == threads[t]
           d == call.document
           l == call.args.link_id
           docs == count_access(documents, d, l, call.read)
           whole == access_via_share_link(documents, now, d, l, call.args.user_id)
       IN /\ documents' = docs
          /\ redeemed' = [redeemed EXCEPT ![l] = @ + 1]
          /\ threads' =
               Disturbs(t, docs,
                        [call EXCEPT
                           !.pc = "counted",
                           !.stale = ~HeldLink(t).is_active,
                           !.atomic = /\ whole.outcome = Ok
                                      /\ docs[d].share_links
                                           = whole.documents[d].share_links])
    /\ UNCHANGED uuid_counter
    /\ OnlyLinks

\* if user_id and user_id in document.collaborators: last_accessed = now
\* return document, share_link.access_role
TouchesAndReturns(t) ==
    /\ threads[t].pc = "counted"
    /\ LET call == threads[t]
           d == call.document
           u == call.args.user_id
       IN /\ documents' =
               IF u # NoUser /\ u \in DOMAIN documents[d].collaborators
               THEN [documents EXCEPT ![d].collaborators[u].last_accessed = now]
               ELSE documents
          /\ threads' = [threads EXCEPT ![t] =
                           [call EXCEPT !.pc = "done", !.outcome = Ok]]
    /\ UNCHANGED <<uuid_counter, redeemed>>
    /\ OnlyLinks

\* The caller has the outcome of its redemption and may redeem again.
RedeemerReturns(t) ==
    /\ threads[t].op = "access_via_share_link"
    /\ threads[t].pc = "done"
    /\ threads' = [threads EXCEPT ![t] = Waiting]
    /\ UNCHANGED <<documents, uuid_counter, redeemed>>
    /\ OnlyLinks

\* SpecRedeem: users u1 and u2, document d1 of u1, and the two callers.
InitRedeem == InitRace

NextRedeem ==
    \/ CreatesShareLink
    \/ RevokesShareLink
    \/ \E t \in Callers :
         \/ EntersAndFindsLink(t)
         \/ ChecksActive(t)
         \/ ChecksExpiry(t)
         \/ ReadsCount(t)
         \/ WritesCount(t)
         \/ TouchesAndReturns(t)
         \/ RedeemerReturns(t)

SpecRedeem == InitRedeem /\ [][NextRedeem]_vars

C31_LostUpdate ==
    \E d \in DOMAIN documents : \E l \in DOMAIN documents[d].share_links :
        /\ redeemed[l] = 2
        /\ documents[d].share_links[l].access_count = 1

\* A redemption succeeded on a link that was revoked after the redemption
\* had checked is_active.
C31_RedeemedAfterRevoke ==
    \E t \in Callers : threads[t].pc = "done" /\ threads[t].stale

-----------------------------------------------------------------------------
\* Two documents.

\* add_document of a new document under either id.
AddEitherDocument(U) ==
    \E d \in DocIds, o \in U :
        /\ Called("add_document", [document |-> Document(d, o)],
                  add_document(documents, Document(d, o)))
        /\ UNCHANGED <<users, role_permissions, now, uuid_counter>>

\* A manager after construction, add_user calls and add_document calls of
\* new documents under both ids.
InitDocs ==
    /\ users \in SUBSET TwoUsers
    /\ documents \in [DocIds -> {Document(d, o) : d \in DocIds, o \in TwoUsers}]
    /\ \A d \in DocIds : documents[d].id = d
    /\ role_permissions = ROLE_PERMISSIONS
    /\ now = 0
    /\ uuid_counter = 0
    /\ pc = "idle"
    /\ last = NoCall
    /\ redeemed = [l \in LinkIds |-> 0]
    /\ threads = [t \in Callers |-> Waiting]
    /\ budget = MaxMutations - 1

NextDocs == Step(TwoUsers) \/ AddEitherDocument(TwoUsers)

\* SpecDocs: documents d1 and d2 both registered, runs of three changes.
SpecDocs == InitDocs /\ [][NextDocs]_vars

\* C32: revoke_share_link(d, l, by), called by an actor with MANAGE on a
\* registered document d for a link id l that only another document holds,
\* fails with "Share link not found for document" and changes nothing, so
\* the link stays as it is; access_via_share_link(l) finds the link in the
\* other document and does not fail with "Share link not found".
C32_RevokeLooksInDocumentOnly ==
    /\ Idle =>
         \A d \in DOMAIN documents, by \in UserIds, l \in LinkIds :
            (/\ check_permission(documents, by, d, MANAGE)
             /\ l \notin DOMAIN documents[d].share_links
             /\ Holders(documents, l) # {})
            => /\ revoke_share_link(documents, d, l, by)
                    = Raise(documents, LinkNotFoundInDocument)
               /\ \A h \in ScanStops(documents, l), u \in UserIds \cup {NoUser} :
                    /\ h # d
                    /\ access_via_share_link(documents, now, h, l, u).outcome
                         # LinkNotFound
    /\ (/\ Returned("revoke_share_link")
        /\ last.args.document_id \in DOMAIN last.documents
        /\ check_permission(last.documents, last.args.revoked_by,
                            last.args.document_id, MANAGE)
        /\ last.args.link_id
              \notin DOMAIN last.documents[last.args.document_id].share_links)
       => /\ last.outcome = LinkNotFoundInDocument
          /\ documents = last.documents

\* The owner of d1 tried to revoke an active link of d2; the link is still
\* active and a redemption of it succeeds.
C32_Witness ==
    /\ Returned("revoke_share_link")
    /\ last.outcome = LinkNotFoundInDocument
    /\ last.args.document_id = "d1"
    /\ check_permission(last.documents, last.args.revoked_by, "d1", MANAGE)
    /\ last.args.link_id \in DOMAIN documents["d2"].share_links
    /\ documents["d2"].share_links[last.args.link_id].is_active
    /\ access_via_share_link(documents, now, "d2", last.args.link_id, NoUser).outcome
         = Ok

\* C33: every link id is stored in at most one document, under the key equal
\* to its id and with the document_id of the document that stores it; so
\* whichever document the scan of access_via_share_link comes to first, the
\* redemption ends the same way.
C33_GlobalLinkIds ==
    /\ \A l \in LinkIds :
         /\ Cardinality(Holders(documents, l)) <= 1
         /\ \A d \in Holders(documents, l) :
              /\ documents[d].share_links[l].id = l
              /\ documents[d].share_links[l].document_id = d
    /\ \A d \in DOMAIN documents : DOMAIN documents[d].share_links \subseteq LinkIds
    /\ Idle =>
         \A l \in LinkIds, u \in UserIds \cup {NoUser} :
            \A h1 \in ScanStops(documents, l), h2 \in ScanStops(documents, l) :
                access_via_share_link(documents, now, h1, l, u)
                    = access_via_share_link(documents, now, h2, l, u)

\* Each of the two documents holds a link, and one of them was redeemed.
C33_Witness ==
    /\ Returned("access_via_share_link")
    /\ last.outcome = Ok
    /\ \A d \in DocIds :
         d \in DOMAIN documents /\ DOMAIN documents[d].share_links # {}

\* The methods of C34 that name their document, and the store with document
\* d alone in it.
NamesDocument ==
    {"add_collaborator", "remove_collaborator", "create_share_link",
     "revoke_share_link"}

Alone(docs, d) == [x \in {d} |-> docs[x]]

\* C34: add_collaborator, remove_collaborator, create_share_link and
\* revoke_share_link on document D, and access_via_share_link of a link of
\* D, leave users, the set of documents, the owner_id of every document and
\* every document other than D as they were; and what a user may do on a
\* document is decided by that document alone, whatever the user is on the
\* others.
C34_IsolatedPerDocument ==
    /\ (pc = "returned" /\ last.op \in NamesDocument \cup {"access_via_share_link"})
       => /\ users = last.users
          /\ DOMAIN documents = DOMAIN last.documents
          /\ \A d \in DOMAIN documents :
               /\ documents[d].owner_id = last.documents[d].owner_id
               /\ documents[d].id = last.documents[d].id
               /\ (last.op \in NamesDocument /\ d # last.args.document_id)
                     => documents[d] = last.documents[d]
               /\ (last.op = "access_via_share_link"
                     /\ last.args.link_id \notin DOMAIN last.documents[d].share_links)
                     => documents[d] = last.documents[d]
    /\ Idle =>
         \A d \in DOMAIN documents, u \in UserIds, p \in Permission :
            /\ get_user_role(documents, u, d) = get_user_role(Alone(documents, d), u, d)
            /\ check_permission(documents, u, d, p)
                 = check_permission(Alone(documents, d), u, d, p)

\* A collaborator of both documents was removed from d1; on d2 the record
\* stays and so does the permission.
C34_Witness ==
    /\ Returned("remove_collaborator")
    /\ last.outcome = Ok
    /\ last.args.document_id = "d1"
    /\ "d2" \in DOMAIN documents
    /\ last.args.user_id \in DOMAIN documents["d2"].collaborators
    /\ check_permission(documents, last.args.user_id, "d2", VIEW)
    /\ ~check_permission(documents, last.args.user_id, "d1", VIEW)

\* C35: in every state, the owner of every registered document has role
\* OWNER on it and check_permission(owner_id, document, p) is true for VIEW,
\* EDIT and MANAGE, whether or not owner_id is a registered user and
\* whatever record is stored under owner_id.
C35_OwnerKeepsAccess ==
    \A d \in DOMAIN documents :
        /\ get_user_role(documents, documents[d].owner_id, d) = OWNER
        /\ \A p \in Permission :
             check_permission(documents, documents[d].owner_id, d, p)

\* The owner is not a registered user, and another user, who manages the
\* document through a record, has changed it.
C35_Witness ==
    /\ pc = "returned"
    /\ last.op \in {"add_collaborator", "remove_collaborator",
                    "create_share_link", "revoke_share_link"}
    /\ last.outcome = Ok
    /\ last.args.document_id \in DOMAIN documents
    /\ Actor(last) # documents[last.args.document_id].owner_id
    /\ documents[last.args.document_id].owner_id \notin users

\* The step from this state to the next keeps link l of document d.
Kept(d, l) ==
    /\ d \in DOMAIN documents /\ d \in DOMAIN documents'
    /\ l \in DOMAIN documents[d].share_links
    /\ l \in DOMAIN documents'[d].share_links

\* C36: in every step, the access_count of a link that stays stored does not
\* decrease; it changes only in a successful access_via_share_link of that
\* link, and then by one; and it does not change when the link is revoked
\* before the step.
C36_CountIsMonotonic ==
    [][\A d \in DocIds, l \in LinkIds :
          Kept(d, l) =>
             LET n == documents[d].share_links[l].access_count
                 m == documents'[d].share_links[l].access_count
             IN /\ m >= n
                /\ m # n => /\ pc' = "returned"
                            /\ last'.op = "access_via_share_link"
                            /\ last'.outcome = Ok
                            /\ last'.args.link_id = l
                            /\ m = n + 1
                /\ ~documents[d].share_links[l].is_active => m = n]_vars

\* A link redeemed once and then revoked was tried again: the redemption
\* failed and the count is still 1.
C36_Witness ==
    /\ Returned("access_via_share_link")
    /\ last.outcome = LinkInactive
    /\ \E d \in DOMAIN documents :
         /\ last.args.link_id \in DOMAIN documents[d].share_links
         /\ documents[d].share_links[last.args.link_id].access_count = 1
         /\ redeemed[last.args.link_id] = 1

\* C37: every collaborator record is stored under its own user_id, in the
\* document its document_id names, for a registered user and with a
\* registered user as added_by; and the record add_collaborator has just
\* stored names as added_by the caller, who held MANAGE on the document when
\* the call was made.
C37_RecordsWellFormed ==
    /\ \A d \in DOMAIN documents : \A u \in DOMAIN documents[d].collaborators :
         LET record == documents[d].collaborators[u]
         IN /\ record.user_id = u
            /\ record.document_id = d
            /\ record.user_id \in users
            /\ record.added_by \in UserIds
            /\ record.role \in Role
    /\ (Returned("add_collaborator") /\ last.outcome = Ok) =>
         LET d == last.args.document_id
             record == documents[d].collaborators[last.args.user_id]
         IN /\ record = last.result
            /\ record.added_by = last.args.added_by
            /\ check_permission(last.documents, record.added_by, d, MANAGE)
    /\ (pc = "returned" /\ last.op # "add_collaborator") =>
         \A d \in DOMAIN documents : \A u \in DOMAIN documents[d].collaborators :
            /\ d \in DOMAIN last.documents
            /\ u \in DOMAIN last.documents[d].collaborators
            /\ documents[d].collaborators[u].added_by
                 = last.documents[d].collaborators[u].added_by

\* A user holds a record in each of the two documents, written by different
\* users.
C37_Witness ==
    /\ Returned("add_collaborator")
    /\ last.outcome = Ok
    /\ \E u \in users :
         /\ \A d \in DocIds :
              d \in DOMAIN documents /\ u \in DOMAIN documents[d].collaborators
         /\ documents["d1"].collaborators[u].added_by
              # documents["d2"].collaborators[u].added_by

====
